---- MODULE Spec2Model ----
(***************************************************************************)
(* A model of the pair-setup / pair-verify client of pair_homekit.c and of *)
(* the framed AEAD control channel built on its result.                    *)
(*                                                                         *)
(* The cryptographic primitives the file calls (SHA-512, HMAC, ChaCha20-   *)
(* Poly1305, X25519, Ed25519) are libraries outside the repository.  They  *)
(* are modelled as ideal primitives: a keyed primitive is an injective     *)
(* term constructor, so two outputs are equal exactly when all inputs are. *)
(* The SRP arithmetic is modelled with integers over a small group.        *)
(***************************************************************************)
EXTENDS Integers, Sequences, FiniteSets, TLC

VARIABLES
  \* key schedule (hkdf_extract_expand) calls
  kcur, kprev,
  \* control channel: struct pair_cipher_context of the two ends, buffers
  cctx, wire, sent, sealLog, openLog, cres,
  \* what the caller of each end of the channel has done so far
  calls,
  \* pair-setup: struct pair_setup_context and the last call's outcome
  sctx, sres,
  \* pair-verify: the pair_verify_context objects and the last call's outcome
  vctx, vres

keyVars == <<kcur, kprev>>
cipherVars == <<cctx, wire, sent, sealLog, openLog, cres, calls>>
setupVars == <<sctx, sres>>
verifyVars == <<vctx, vres>>
vars == <<kcur, kprev, cctx, wire, sent, sealLog, openLog, cres, calls, sctx, sres, vctx, vres>>

----------------------------------------------------------------------------
(* Program constants *)

AUTHTAG_LENGTH == 16
NONCE_LENGTH == 12
ENCRYPTED_LEN_MAX == 1024
SHA512_DIGEST_LENGTH == 64
\* sizeof(uint16_t block_len)
BLOCK_LEN_SIZE == 2
\* sizeof(cctx->encryption_key), sizeof(derived_key), sizeof(shared_secret)
KEY_LENGTH == 32

Min(a, b) == IF a < b THEN a ELSE b

\* n bytes of the unsigned integer c, least significant first (memcpy of a
\* native integer on a little-endian build)
RECURSIVE LEBytes(_, _)
LEBytes(c, n) == IF n = 0 THEN <<>> ELSE <<c % 256>> \o LEBytes(c \div 256, n - 1)

Zeros(n) == [i \in 1..n |-> 0]

----------------------------------------------------------------------------
(* Key schedule *)

Stages == {"PAIR_SETUP_MSG01", "PAIR_SETUP_MSG02", "PAIR_SETUP_MSG03",
           "PAIR_SETUP_MSG04", "PAIR_SETUP_MSG05", "PAIR_SETUP_MSG06",
           "PAIR_SETUP_SIGN", "PAIR_VERIFY_MSG01", "PAIR_VERIFY_MSG02",
           "PAIR_VERIFY_MSG03", "PAIR_VERIFY_MSG04", "PAIR_CONTROL_WRITE",
           "PAIR_CONTROL_READ"}

\* "" as const char nonce[8]: eight zero bytes; the labels as ASCII
NoNonce == Zeros(8)
PSMsg05 == <<80, 83, 45, 77, 115, 103, 48, 53>>
\* the label of M6 written as that of M5
PSMsg06_as05 == <<80, 83, 45, 77, 115, 103, 48, 53>>
PSMsg06 == <<80, 83, 45, 77, 115, 103, 48, 54>>
PVMsg02 == <<80, 86, 45, 77, 115, 103, 48, 50>>
PVMsg03 == <<80, 86, 45, 77, 115, 103, 48, 51>>

KeyEntry(state, salt, info, nonce) ==
  [state |-> state, salt |-> salt, info |-> info, nonce |-> nonce]

\* The table with the info label of PAIR_CONTROL_READ set to that of
\* PAIR_CONTROL_WRITE (a copy-and-paste slip in the table).
pair_keys_map_samectl(stage) ==
  CASE stage = "PAIR_SETUP_MSG05" ->
         KeyEntry(5, "Pair-Setup-Encrypt-Salt", "Pair-Setup-Encrypt-Info", PSMsg05)
    [] stage = "PAIR_SETUP_MSG06" ->
         KeyEntry(6, "Pair-Setup-Encrypt-Salt", "Pair-Setup-Encrypt-Info", PSMsg06)
    [] stage = "PAIR_SETUP_SIGN" ->
         KeyEntry(0, "Pair-Setup-Controller-Sign-Salt", "Pair-Setup-Controller-Sign-Info", NoNonce)
    [] stage = "PAIR_VERIFY_MSG02" ->
         KeyEntry(2, "Pair-Verify-Encrypt-Salt", "Pair-Verify-Encrypt-Info", PVMsg02)
    [] stage = "PAIR_VERIFY_MSG03" ->
         KeyEntry(3, "Pair-Verify-Encrypt-Salt", "Pair-Verify-Encrypt-Info", PVMsg03)
    [] stage = "PAIR_CONTROL_WRITE" ->
         KeyEntry(0, "Control-Salt", "Control-Write-Encryption-Key", NoNonce)
    [] stage = "PAIR_CONTROL_READ" ->
         KeyEntry(0, "Control-Salt", "Control-Write-Encryption-Key", NoNonce)
    [] stage = "PAIR_SETUP_MSG01" -> KeyEntry(1, "NULL", "NULL", NoNonce)
    [] stage = "PAIR_SETUP_MSG02" -> KeyEntry(2, "NULL", "NULL", NoNonce)
    [] stage = "PAIR_SETUP_MSG03" -> KeyEntry(3, "NULL", "NULL", NoNonce)
    [] stage = "PAIR_SETUP_MSG04" -> KeyEntry(4, "NULL", "NULL", NoNonce)
    [] stage = "PAIR_VERIFY_MSG01" -> KeyEntry(1, "NULL", "NULL", NoNonce)
    [] stage = "PAIR_VERIFY_MSG04" -> KeyEntry(4, "NULL", "NULL", NoNonce)

\* struct pair_keys_map pair_keys_map[]
pair_keys_map(stage) ==
  CASE stage = "PAIR_SETUP_MSG01" -> KeyEntry(1, "NULL", "NULL", NoNonce)
    [] stage = "PAIR_SETUP_MSG02" -> KeyEntry(2, "NULL", "NULL", NoNonce)
    [] stage = "PAIR_SETUP_MSG03" -> KeyEntry(3, "NULL", "NULL", NoNonce)
    [] stage = "PAIR_SETUP_MSG04" -> KeyEntry(4, "NULL", "NULL", NoNonce)
    [] stage = "PAIR_SETUP_MSG05" ->
         KeyEntry(5, "Pair-Setup-Encrypt-Salt", "Pair-Setup-Encrypt-Info", PSMsg05)
    [] stage = "PAIR_SETUP_MSG06" ->
         KeyEntry(6, "Pair-Setup-Encrypt-Salt", "Pair-Setup-Encrypt-Info", PSMsg06)
    [] stage = "PAIR_SETUP_SIGN" ->
         KeyEntry(0, "Pair-Setup-Controller-Sign-Salt", "Pair-Setup-Controller-Sign-Info", NoNonce)
    [] stage = "PAIR_VERIFY_MSG01" -> KeyEntry(1, "NULL", "NULL", NoNonce)
    [] stage = "PAIR_VERIFY_MSG02" ->
         KeyEntry(2, "Pair-Verify-Encrypt-Salt", "Pair-Verify-Encrypt-Info", PVMsg02)
    [] stage = "PAIR_VERIFY_MSG03" ->
         KeyEntry(3, "Pair-Verify-Encrypt-Salt", "Pair-Verify-Encrypt-Info", PVMsg03)
    [] stage = "PAIR_VERIFY_MSG04" -> KeyEntry(4, "NULL", "NULL", NoNonce)
    [] stage = "PAIR_CONTROL_WRITE" ->
         KeyEntry(0, "Control-Salt", "Control-Write-Encryption-Key", NoNonce)
    [] stage = "PAIR_CONTROL_READ" ->
         KeyEntry(0, "Control-Salt", "Control-Read-Encryption-Key", NoNonce)

\* The stages whose entry has salt and info labels: the only ones any caller
\* passes to hkdf_extract_expand (strlen of a NULL label is never evaluated).
LabelledStages == {s \in Stages : pair_keys_map(s).salt # "NULL"}

\* HMAC-SHA512 as an ideal keyed function
HMAC(key, msg) == [key |-> key, msg |-> msg]

\* The first len bytes at ikm: the bytes an HMAC over (ikm, len) reads
Ikm(ikm, len) == IF len = 0 THEN [data |-> <<>>, len |-> 0] ELSE [data |-> <<ikm>>, len |-> len]

\* A key buffer nothing was written to
NoKey == [okm |-> HMAC(HMAC("", Ikm(0, 0)), <<"", 0>>), len |-> 0]

\* hkdf_extract_expand with the info label left out of the expand step
hkdf_extract_expand_noinfo(okm_len, ikm, ikm_len, pair_key) ==
  IF okm_len > SHA512_DIGEST_LENGTH
    THEN [ret |-> -1, okm |-> NoKey]
    ELSE LET prk == HMAC(pair_keys_map(pair_key).salt, Ikm(ikm, ikm_len))
         IN [ret |-> 0, okm |-> [okm |-> HMAC(prk, <<"", 1>>), len |-> okm_len]]

\* hkdf_extract_expand without the test of okm_len against the digest length
hkdf_extract_expand_nolimit(okm_len, ikm, ikm_len, pair_key) ==
  LET prk == HMAC(pair_keys_map(pair_key).salt, Ikm(ikm, ikm_len))
      t == HMAC(prk, <<pair_keys_map(pair_key).info, 1>>)
  IN [ret |-> 0, okm |-> [okm |-> t, len |-> okm_len]]

\* hkdf_extract_expand: PRK = HMAC(salt, ikm); OKM = the first okm_len bytes
\* of HMAC(PRK, info | 0x01); ret -1 and okm untouched if okm_len > 64
hkdf_extract_expand(okm_len, ikm, ikm_len, pair_key) ==
  IF okm_len > SHA512_DIGEST_LENGTH
    THEN [ret |-> -1, okm |-> NoKey]
    ELSE LET prk == HMAC(pair_keys_map(pair_key).salt, Ikm(ikm, ikm_len))
             t == HMAC(prk, <<pair_keys_map(pair_key).info, 1>>)
         IN [ret |-> 0, okm |-> [okm |-> t, len |-> okm_len]]

----------------------------------------------------------------------------
(* ChaCha20-Poly1305, as an ideal AEAD.  A text or a buffer is a sequence  *)
(* of elements, one per byte: <<b>> is the byte b, and the 16 elements of  *)
(* a tag are terms over the key, the nonce, the associated data and the    *)
(* ciphertext, so that two tags are equal exactly when they were made from *)
(* the same four inputs.  The cipher is a permutation of the text that the *)
(* nonce selects; what opening under another key gives is never looked at, *)
(* since the tag then fails.                                               *)

Byte(b) == <<b>>
\* the value a parser reads from an element
ByteVal(e) == e[1]

\* seq rotated left by k places
Rot(seq, k) ==
  IF Len(seq) = 0 THEN seq
  ELSE SubSeq(seq, (k % Len(seq)) + 1, Len(seq)) \o SubSeq(seq, 1, k % Len(seq))

\* the permutation a nonce selects
Shift(nonce) == 1 + nonce[5] + 3 * nonce[NONCE_LENGTH]

\* The tag of a sealing: element 1 carries the ciphertext, every element the
\* key, the nonce and the associated data.
SealTag(key, nonce, ad, cipher) ==
  [j \in 1..AUTHTAG_LENGTH |->
     <<j, key, nonce, ad, IF j = 1 THEN cipher ELSE <<>> >>]

\* encrypt_chacha(cipher, plain, plain_len, key, key_len, ad, ad_len, tag,
\* tag_len, nonce); fail: the library reports an error
encrypt_chacha(plain, key, ad, nonce, fail) ==
  IF fail
    THEN [ret |-> -1, cipher |-> <<>>, tag |-> <<>>]
    ELSE [ret |-> 0, cipher |-> Rot(plain, Shift(nonce)),
          tag |-> SealTag(key, nonce, ad, Rot(plain, Shift(nonce)))]

\* decrypt_chacha(plain, cipher, cipher_len, key, key_len, ad, ad_len, tag,
\* tag_len, nonce): -1 unless the tag is the one of this sealing
decrypt_chacha(cipher, key, ad, tag, nonce) ==
  [ret |-> IF tag = SealTag(key, nonce, ad, cipher) THEN 0 ELSE -1,
   plain |-> IF Len(cipher) = 0 THEN cipher
             ELSE Rot(cipher, Len(cipher) - (Shift(nonce) % Len(cipher)))]

----------------------------------------------------------------------------
(* The control channel: pair_cipher_new, pair_encrypt, pair_decrypt *)

\* calloc'ed struct pair_cipher_context
\* a context that has opened a block already
ZeroCipherContext_used ==
  [encryption_key |-> NoKey, decryption_key |-> NoKey,
   encryption_counter |-> 0, decryption_counter |-> 1, errmsg |-> "NULL"]

ZeroCipherContext ==
  [encryption_key |-> NoKey, decryption_key |-> NoKey,
   encryption_counter |-> 0, decryption_counter |-> 0, errmsg |-> "NULL"]

\* pair_cipher_new(shared_secret)
pair_cipher_new(shared_secret) ==
  LET w == hkdf_extract_expand(KEY_LENGTH, shared_secret, KEY_LENGTH, "PAIR_CONTROL_WRITE")
      r == hkdf_extract_expand(KEY_LENGTH, shared_secret, KEY_LENGTH, "PAIR_CONTROL_READ")
  IN IF w.ret < 0 \/ r.ret < 0
       THEN [ret |-> "NULL", cctx |-> ZeroCipherContext]
       ELSE [ret |-> "cctx",
             cctx |-> [ZeroCipherContext EXCEPT !.encryption_key = w.okm,
                                                !.decryption_key = r.okm]]

\* The context of the other end of the session (the accessory): it writes
\* with the key this end reads with and reads with the key this end writes
\* with; counters at 0.
PeerCipherContext(shared_secret) ==
  [ZeroCipherContext EXCEPT
     !.encryption_key =
        hkdf_extract_expand(KEY_LENGTH, shared_secret, KEY_LENGTH, "PAIR_CONTROL_READ").okm,
     !.decryption_key =
        hkdf_extract_expand(KEY_LENGTH, shared_secret, KEY_LENGTH, "PAIR_CONTROL_WRITE").okm]

\* nonce: memcpy(nonce + 4, &counter, sizeof(counter)) on a zeroed nonce
ChannelNonce(counter) == Zeros(NONCE_LENGTH - 8) \o LEBytes(counter, 8)

\* the nonce of a sealing (pair_encrypt)
EncryptNonce(ctx) == ChannelNonce(ctx.encryption_counter)

\* the nonce of an opening taken from the counter of the other direction
DecryptNonce_enc(ctx) == ChannelNonce(ctx.encryption_counter)

\* the nonce of an opening (pair_decrypt)
DecryptNonce(ctx) == ChannelNonce(ctx.decryption_counter)

\* the counter moved on by two
CounterSkip(counter) == counter + 2

\* the counter left as it was
CounterStuck(counter) == counter

\* cctx->encryption_counter++, cctx->decryption_counter++
CounterNext(counter) == counter + 1

\* the division rounded down, and one more
NBlocks_floor(plaintext_len) == 1 + (plaintext_len \div ENCRYPTED_LEN_MAX)

\* one block whatever the length
NBlocks_one(plaintext_len) == 1

\* nblocks = 1 + ((plaintext_len - 1) / ENCRYPTED_LEN_MAX)
NBlocks(plaintext_len) == 1 + ((plaintext_len - 1) \div ENCRYPTED_LEN_MAX)

\* block_len = (i + 1 == nblocks) ? (plaintext + plaintext_len - plain_block)
\*                                : ENCRYPTED_LEN_MAX, as uint16_t
BlockLen(i, nblocks, plaintext_len, plain_off) ==
  IF i + 1 = nblocks THEN (plaintext_len - plain_off) % 65536 ELSE ENCRYPTED_LEN_MAX

\* the length without the tags
CiphertextLen_notag(nblocks, plaintext_len) == nblocks * BLOCK_LEN_SIZE + plaintext_len

\* *ciphertext_len = nblocks * (sizeof(block_len) + AUTHTAG_LENGTH) + plaintext_len
CiphertextLen(nblocks, plaintext_len) ==
  nblocks * (BLOCK_LEN_SIZE + AUTHTAG_LENGTH) + plaintext_len

\* The loop of pair_encrypt from block i on.  plain_off and out are the
\* cursors plain_block and cipher_block; log lists the sealings done.
RECURSIVE EncryptLoop(_, _, _, _, _, _, _, _)
EncryptLoop(i, nblocks, plaintext, plain_off, out, ctx, failAt, log) ==
  IF i >= nblocks
    THEN [ret |-> 0, ciphertext |-> out,
          ciphertext_len |-> CiphertextLen(nblocks, Len(plaintext)), cctx |-> ctx,
          log |-> log, plain_off |-> plain_off, cipher_off |-> Len(out)]
    ELSE
      LET block_len == BlockLen(i, nblocks, Len(plaintext), plain_off)
          nonce == EncryptNonce(ctx)
          ad == LEBytes(block_len, BLOCK_LEN_SIZE)
          r == encrypt_chacha(SubSeq(plaintext, plain_off + 1, plain_off + block_len),
                              ctx.encryption_key, ad, nonce, failAt = i + 1)
      IN IF r.ret < 0
           THEN [ret |-> -1, ciphertext |-> <<>>, ciphertext_len |-> 0,
                 cctx |-> [ctx EXCEPT !.errmsg = "Encryption with chacha poly1305 failed"],
                 log |-> log, plain_off |-> plain_off, cipher_off |-> Len(out)]
           ELSE EncryptLoop(i + 1, nblocks, plaintext, plain_off + block_len,
                            out \o <<Byte(ad[1]), Byte(ad[2])>> \o r.cipher \o r.tag,
                            [ctx EXCEPT !.encryption_counter = CounterNext(@)],
                            failAt,
                            Append(log, [nonce |-> nonce, key |-> ctx.encryption_key,
                                         counter |-> ctx.encryption_counter]))

\* pair_encrypt(&ciphertext, &ciphertext_len, plaintext, plaintext_len, cctx);
\* a missing plaintext is the empty sequence.  failAt: the block at which the
\* library reports an error (0: none).
pair_encrypt(plaintext, ctx, failAt) ==
  IF Len(plaintext) = 0
    THEN [ret |-> -1, ciphertext |-> <<>>, ciphertext_len |-> 0, cctx |-> ctx,
          log |-> <<>>, plain_off |-> 0, cipher_off |-> 0]
    ELSE EncryptLoop(0, NBlocks(Len(plaintext)), plaintext, 0, <<>>, ctx, failAt, <<>>)

\* The element at 0-based offset off of a buffer of len elements; reading at
\* or beyond len gives whatever byte follows the buffer in memory (stray).
ReadAt(buf, off, stray) == IF off < Len(buf) THEN buf[off + 1] ELSE Byte(stray)

\* a block that does not fit ends the call with what was opened before it
CorruptBlock_partial(plain, ctx, log, maxread, off) ==
  [ret |-> 0, plaintext |-> plain, plaintext_len |-> Len(plain), cctx |-> ctx,
   log |-> log, maxread |-> maxread, cipher_off |-> off]

\* The block at off does not fit in the buffer: errmsg, free(*plaintext),
\* return -1
CorruptBlock(plain, ctx, log, maxread, off) ==
  [ret |-> -1, plaintext |-> <<>>, plaintext_len |-> 0,
   cctx |-> [ctx EXCEPT !.errmsg = "Corrupt block length in encrypted data"],
   log |-> log, maxread |-> maxread, cipher_off |-> off]

\* a block that does not authenticate ends the call with what was opened
\* before it
OpenFailed_ignored(plain, ctx, log, maxread, off) ==
  [ret |-> 0, plaintext |-> plain, plaintext_len |-> Len(plain), cctx |-> ctx,
   log |-> log, maxread |-> maxread, cipher_off |-> off]

\* decrypt_chacha returned an error for the block at off: errmsg,
\* free(*plaintext), return -1
OpenFailed(plain, ctx, log, maxread, off) ==
  [ret |-> -1, plaintext |-> <<>>, plaintext_len |-> 0,
   cctx |-> [ctx EXCEPT !.errmsg = "Decryption with chacha poly1305 failed"],
   log |-> log, maxread |-> maxread, cipher_off |-> off]

\* The loop of pair_decrypt from the block at offset off on.  maxread is the
\* highest offset read so far (-1: none).
RECURSIVE DecryptLoop(_, _, _, _, _, _, _)
DecryptLoop(ciphertext, off, plain, ctx, stray, log, maxread) ==
  IF ~(off < Len(ciphertext))
    THEN [ret |-> 0, plaintext |-> plain, plaintext_len |-> Len(plain), cctx |-> ctx,
          log |-> log, maxread |-> maxread, cipher_off |-> off]
    ELSE
      LET b0 == ByteVal(ReadAt(ciphertext, off, stray))
          b1 == ByteVal(ReadAt(ciphertext, off + 1, stray))
          block_len == b0 + 256 * b1
          read1 == IF off + 1 > maxread THEN off + 1 ELSE maxread
      IN IF off + block_len + BLOCK_LEN_SIZE + AUTHTAG_LENGTH > Len(ciphertext)
           THEN CorruptBlock(plain, ctx, log, read1, off)
           ELSE
             LET body == SubSeq(ciphertext, off + BLOCK_LEN_SIZE + 1,
                                off + BLOCK_LEN_SIZE + block_len)
                 tag == SubSeq(ciphertext, off + BLOCK_LEN_SIZE + block_len + 1,
                               off + BLOCK_LEN_SIZE + block_len + AUTHTAG_LENGTH)
                 nonce == DecryptNonce(ctx)
                 r == decrypt_chacha(body, ctx.decryption_key, <<b0, b1>>, tag, nonce)
                 read2 == off + BLOCK_LEN_SIZE + block_len + AUTHTAG_LENGTH - 1
             IN IF r.ret < 0
                  THEN OpenFailed(plain, ctx, log, read2, off)
                  ELSE DecryptLoop(ciphertext, off + block_len + BLOCK_LEN_SIZE + AUTHTAG_LENGTH,
                                   plain \o r.plain,
                                   [ctx EXCEPT !.decryption_counter = CounterNext(@)],
                                   stray,
                                   Append(log, [nonce |-> nonce, key |-> ctx.decryption_key,
                                                counter |-> ctx.decryption_counter]),
                                   read2)

\* pair_decrypt(&plaintext, &plaintext_len, ciphertext, ciphertext_len, cctx);
\* a missing ciphertext is the empty sequence
pair_decrypt(ciphertext, ctx, stray) ==
  IF Len(ciphertext) < BLOCK_LEN_SIZE
    THEN [ret |-> -1, plaintext |-> <<>>, plaintext_len |-> 0, cctx |-> ctx,
          log |-> <<>>, maxread |-> 0 - 1, cipher_off |-> 0]
    ELSE DecryptLoop(ciphertext, 0, <<>>, ctx, stray, <<>>, 0 - 1)

----------------------------------------------------------------------------
(* Key schedule calls: the caller derives keys for stages from secrets *)

MaxSecret == 2
\* the output lengths callers ask for: a 32-byte key, a whole digest, and
\* one byte more than the digest
OkmLens == {KEY_LENGTH, SHA512_DIGEST_LENGTH, SHA512_DIGEST_LENGTH + 1}
\* the input lengths callers pass: a 32-byte shared secret, a 64-byte session key
IkmLens == {KEY_LENGTH, SHA512_DIGEST_LENGTH}

NoCall == [stage |-> "none", secret |-> 0, ikm_len |-> 0, okm_len |-> 0,
           ret |-> -1, okm |-> NoKey]

KeysIdle == kcur = NoCall /\ kprev = NoCall
CipherIdle == cctx = <<>> /\ wire = <<>> /\ sent = <<>> /\ sealLog = <<>>
              /\ openLog = <<>> /\ cres = <<>> /\ calls = <<>>
SetupIdle == sctx = <<>> /\ sres = <<>>
VerifyIdle == vctx = <<>> /\ vres = <<>>

KeysInit == KeysIdle /\ CipherIdle /\ SetupIdle /\ VerifyIdle

\* one call hkdf_extract_expand(okm, okm_len, ikm, ikm_len, pair_key)
DeriveKey ==
  \E secret \in 1..MaxSecret, stage \in LabelledStages,
     okm_len \in OkmLens, ikm_len \in IkmLens :
    LET r == hkdf_extract_expand(okm_len, secret, ikm_len, stage)
    IN /\ kprev' = kcur
       /\ kcur' = [stage |-> stage, secret |-> secret, ikm_len |-> ikm_len,
                   okm_len |-> okm_len, ret |-> r.ret, okm |-> r.okm]
       /\ UNCHANGED <<cipherVars, setupVars, verifyVars>>

KeysNext == DeriveKey

SpecKeys == KeysInit /\ [][KeysNext]_vars

\* two successful derivations of the same length from the same secret bytes
SameSecretPair ==
  /\ kcur.ret = 0 /\ kprev.ret = 0
  /\ kcur.secret = kprev.secret /\ kcur.ikm_len = kprev.ikm_len
  /\ kcur.okm_len = kprev.okm_len

\* the pairs of distinct stages that carry the same (salt, info) labels
SharedLabelPairs == {{"PAIR_SETUP_MSG05", "PAIR_SETUP_MSG06"},
                     {"PAIR_VERIFY_MSG02", "PAIR_VERIFY_MSG03"}}

\* C6 (as claimed): for every secret and every two distinct labelled stages,
\* the derived keys differ.
C6_AllStagesSeparated ==
  (SameSecretPair /\ kcur.stage # kprev.stage) => kcur.okm # kprev.okm

\* C6 (amended): for every secret, two distinct labelled stages derive
\* different keys, except the two pairs of stages that share their labels
\* (setup M5/M6, verify M2/M3), which derive the same key.
C6_KeySeparation ==
  (SameSecretPair /\ kcur.stage # kprev.stage) =>
     ((kcur.okm = kprev.okm) <=> ({kcur.stage, kprev.stage} \in SharedLabelPairs))

\* C6 witness: the write and the read key of the control channel have been
\* derived from one secret and differ.
C6_Witness ==
  /\ SameSecretPair
  /\ kprev.stage = "PAIR_CONTROL_WRITE" /\ kcur.stage = "PAIR_CONTROL_READ"
  /\ kcur.okm # kprev.okm

\* C24: hkdf_extract_expand returns -1 and writes no key when more than 64
\* bytes are asked for; for at most 64 bytes and a labelled stage it returns
\* 0 and a key of the length asked for, the start of the single expand block
\* HMAC(PRK, info | 0x01) with PRK = HMAC(salt, ikm).
C24_OutputLengthLimit ==
  kcur.stage # "none" =>
     IF kcur.okm_len > SHA512_DIGEST_LENGTH
       THEN kcur.ret = -1 /\ kcur.okm = NoKey
       ELSE /\ kcur.ret = 0
            /\ kcur.okm.len = kcur.okm_len
            /\ kcur.okm.okm =
                 HMAC(HMAC(pair_keys_map(kcur.stage).salt, Ikm(kcur.secret, kcur.ikm_len)),
                      <<pair_keys_map(kcur.stage).info, 1>>)

\* C24 witness: a call for 65 bytes was turned down and the call after it,
\* for 64 bytes, gave a key of 64 bytes.
C24_Witness ==
  /\ kprev.stage # "none" /\ kprev.okm_len = SHA512_DIGEST_LENGTH + 1 /\ kprev.ret = -1
  /\ kprev.okm = NoKey
  /\ kcur.okm_len = SHA512_DIGEST_LENGTH /\ kcur.ret = 0
  /\ kcur.okm.len = SHA512_DIGEST_LENGTH

----------------------------------------------------------------------------
(* Control channel runs: two ends of one session.  End "a" holds a context *)
(* made by pair_cipher_new; end "b" holds either another context made by   *)
(* pair_cipher_new from the same secret or the accessory's context.        *)

MaxCounter == 4
\* the block index at which the AEAD library may report an error
MaxFailAt == 2
\* plaintext lengths: none, one byte, one full block, one byte more, four blocks
PlainLens == {0, 1, ENCRYPTED_LEN_MAX, ENCRYPTED_LEN_MAX + 1, 4 * ENCRYPTED_LEN_MAX}
\* the byte that follows a buffer in memory
StrayBytes == {0, 255}
Sides == {"a", "b"}

\* The texts the ends send: len bytes of a fixed pattern, from place seed on;
\* each end takes another place for each message.
PlainPool == [i \in 1..(5 * ENCRYPTED_LEN_MAX) |-> Byte((7 * i + (i \div 256)) % 256)]
Plain(len, seed) == SubSeq(PlainPool, seed + 1, seed + len)
SeedOf(side, counter) == 2 * counter + (IF side = "a" THEN 0 ELSE 1)

NoResult ==
  [op |-> "none", side |-> "none", ret |-> 0, len |-> 0, text |-> <<>>,
   key |-> NoKey, counter0 |-> 0, counter1 |-> 0, maxread |-> 0 - 1,
   inlen |-> 0, failAt |-> 0, cut |-> 0, tamper |-> 0,
   plain_off |-> 0, cipher_off |-> 0]

NothingSent ==
  [from |-> "none", len |-> 0, seed |-> 0, key |-> NoKey, counter0 |-> 0,
   nblocks |-> 0, intact |-> FALSE]

CipherInit ==
  /\ \E secret \in {1}, kind \in {"new", "accessory"} :
       cctx = [a |-> pair_cipher_new(secret).cctx,
               b |-> IF kind = "new" THEN pair_cipher_new(secret).cctx
                                     ELSE PeerCipherContext(secret),
               bkind |-> kind]
  /\ wire = <<>>
  /\ sent = NothingSent
  /\ sealLog = [s \in Sides |-> <<>>]
  /\ openLog = [s \in Sides |-> <<>>]
  /\ cres = NoResult
  /\ calls = <<>>
  /\ KeysIdle /\ SetupIdle /\ VerifyIdle

\* the blocks sealed in the session so far
SealedBlocks == cctx.a.encryption_counter + cctx.b.encryption_counter

\* end side calls pair_encrypt on a text of len bytes and sends the buffer
EncryptBy(side, len, failAt) ==
  LET ctx == cctx[side]
      seed == SeedOf(side, ctx.encryption_counter)
      r == pair_encrypt(Plain(len, seed), ctx, failAt)
  IN /\ len > 0 => (failAt <= NBlocks(len)
                    /\ SealedBlocks + NBlocks(len) <= MaxCounter)
     /\ len = 0 => failAt = 0
     /\ cctx' = [cctx EXCEPT ![side] = r.cctx]
     /\ sealLog' = [sealLog EXCEPT ![side] = @ \o r.log]
     /\ cres' = [NoResult EXCEPT !.op = "encrypt", !.side = side, !.ret = r.ret,
                                 !.len = r.ciphertext_len, !.key = ctx.encryption_key,
                                 !.counter0 = ctx.encryption_counter,
                                 !.counter1 = r.cctx.encryption_counter,
                                 !.inlen = len, !.failAt = failAt,
                                 !.plain_off = r.plain_off,
                                 !.cipher_off = r.cipher_off]
     /\ IF r.ret = 0
          THEN /\ wire' = r.ciphertext
               /\ sent' = [from |-> side, len |-> len, seed |-> seed,
                           key |-> ctx.encryption_key,
                           counter0 |-> ctx.encryption_counter,
                           nblocks |-> Len(r.log), intact |-> TRUE]
          ELSE UNCHANGED <<wire, sent>>
     /\ UNCHANGED <<openLog, keyVars, setupVars, verifyVars>>

\* one end calls pair_encrypt and sends the buffer
Encrypt ==
  \E side \in Sides, len \in PlainLens, failAt \in 0..MaxFailAt :
    EncryptBy(side, len, failAt) /\ UNCHANGED calls

\* the buffer in flight as it arrives: whole, or without its final cut bytes
Received(cut) == SubSeq(wire, 1, Len(wire) - cut)

\* end side calls pair_decrypt on the buffer buf; cut, tamper: what was
\* done to the buffer on the way (cut bytes removed, the length prefix of
\* block tamper changed; 0: nothing)
DecryptBuf(side, buf, cut, tamper) ==
  LET ctx == cctx[side]
      r0 == pair_decrypt(buf, ctx, 0)
  IN /\ cut <= Len(wire)
     /\ \E stray \in IF r0.maxread >= Len(buf) THEN StrayBytes ELSE {0} :
          LET r == IF stray = 0 THEN r0 ELSE pair_decrypt(buf, ctx, stray)
          IN /\ cctx' = [cctx EXCEPT ![side] = r.cctx]
             /\ openLog' = [openLog EXCEPT ![side] = @ \o r.log]
             /\ cres' = [NoResult EXCEPT !.op = "decrypt", !.side = side, !.ret = r.ret,
                                         !.len = r.plaintext_len, !.text = r.plaintext,
                                         !.key = ctx.decryption_key,
                                         !.counter0 = ctx.decryption_counter,
                                         !.counter1 = r.cctx.decryption_counter,
                                         !.maxread = r.maxread, !.inlen = Len(buf),
                                         !.cut = cut, !.tamper = tamper,
                                         !.plain_off = r.plaintext_len,
                                         !.cipher_off = r.cipher_off]
             /\ UNCHANGED <<wire, sent, sealLog, keyVars, setupVars, verifyVars>>

\* end side calls pair_decrypt on the buffer that arrives
DecryptBy(side, cut) == DecryptBuf(side, Received(cut), cut, 0)

\* one end calls pair_decrypt on the buffer in flight
Decrypt == \E side \in Sides : DecryptBy(side, 0) /\ UNCHANGED calls

CipherNext == Encrypt \/ Decrypt

SpecCipher == CipherInit /\ [][CipherNext]_vars

----------------------------------------------------------------------------
(* Framing runs: the controller's end (a context made by pair_cipher_new)  *)
(* sends, the accessory's end receives the buffer whole or without its     *)
(* final bytes, and the sender's calls are tallied.                        *)

\* what the caller of one end has done with pair_encrypt so far: calls that
\* returned 0, the blocks their plaintexts come to at ENCRYPTED_LEN_MAX bytes
\* a block, and whether a call returned -1
NoCalls == [ok |-> 0, blocks |-> 0, failed |-> FALSE]

\* the least n with n * ENCRYPTED_LEN_MAX >= len
BlocksFor(len) == (len + ENCRYPTED_LEN_MAX - 1) \div ENCRYPTED_LEN_MAX

\* the tally of end side after its pair_encrypt call on len bytes
Tally(side, len) ==
  calls' = [calls EXCEPT ![side] =
              IF cres'.ret = 0
                THEN [@ EXCEPT !.ok = @ + 1, !.blocks = @ + BlocksFor(len)]
                ELSE [@ EXCEPT !.failed = TRUE]]

FramesInit ==
  /\ cctx = [a |-> pair_cipher_new(1).cctx, b |-> PeerCipherContext(1),
             bkind |-> "accessory"]
  /\ wire = <<>>
  /\ sent = NothingSent
  /\ sealLog = [s \in Sides |-> <<>>]
  /\ openLog = [s \in Sides |-> <<>>]
  /\ cres = NoResult
  /\ calls = [s \in Sides |-> NoCalls]
  /\ KeysIdle /\ SetupIdle /\ VerifyIdle

\* the controller calls pair_encrypt and sends the buffer
FrameSend ==
  \E len \in PlainLens, failAt \in 0..MaxFailAt :
    EncryptBy("a", len, failAt) /\ Tally("a", len)

\* the bytes a buffer can lose at its end on the way: none, its final byte,
\* all but the first byte of a final block of one byte of plaintext
Cuts == {0, 1, BLOCK_LEN_SIZE + AUTHTAG_LENGTH}

\* the accessory calls pair_decrypt on what arrives of the buffer
FrameReceive ==
  \E cut \in Cuts : DecryptBy("b", cut) /\ UNCHANGED calls

\* the values a length prefix is changed to
PrefixValues == {0, 1, ENCRYPTED_LEN_MAX, ENCRYPTED_LEN_MAX + 1}

\* the offset of block k (from 0) of a buffer whose blocks before it are full
FrameOff(k) == k * (BLOCK_LEN_SIZE + ENCRYPTED_LEN_MAX + AUTHTAG_LENGTH)

\* the value of the two bytes at offset off of buf
PrefixAt(buf, off) == ByteVal(buf[off + 1]) + 256 * ByteVal(buf[off + 2])

\* buf with the length prefix of block k (from 0) set to v
Tampered(buf, k, v) ==
  [i \in 1..Len(buf) |->
     IF i = FrameOff(k) + 1 THEN Byte(v % 256)
     ELSE IF i = FrameOff(k) + 2 THEN Byte(v \div 256) ELSE buf[i]]

\* the accessory calls pair_decrypt on the buffer with the length prefix of
\* one of its blocks changed to another value
FrameTamper ==
  \E k \in 0..(MaxCounter - 1), v \in PrefixValues :
    /\ sent.from # "none" /\ k < sent.nblocks
    /\ v # PrefixAt(wire, FrameOff(k))
    /\ DecryptBuf("b", Tampered(wire, k, v), 0, k + 1)
    /\ UNCHANGED calls

FramesNext == FrameSend \/ FrameReceive \/ FrameTamper

SpecFrames == FramesInit /\ [][FramesNext]_vars

\* the unsigned integer whose bytes, least significant first, are bytes
RECURSIVE LEValue(_)
LEValue(bytes) == IF bytes = <<>> THEN 0 ELSE Head(bytes) + 256 * LEValue(Tail(bytes))

\* a logged nonce is four zero bytes followed by the logged counter
CarriesCounter(e) ==
  /\ Len(e.nonce) = NONCE_LENGTH
  /\ SubSeq(e.nonce, 1, 4) = <<0, 0, 0, 0>>
  /\ LEValue(SubSeq(e.nonce, 5, NONCE_LENGTH)) = e.counter

\* the logged counters go up, and the nonces are all different
StrictlyUp(log) ==
  \A i, j \in DOMAIN log :
    i < j => (log[i].counter < log[j].counter /\ log[i].nonce # log[j].nonce)

C5_LogDiscipline ==
  \A s \in Sides :
    /\ \A i \in DOMAIN sealLog[s] :
         /\ CarriesCounter(sealLog[s][i])
         /\ sealLog[s][i].counter < cctx[s].encryption_counter
    /\ \A i \in DOMAIN openLog[s] :
         /\ CarriesCounter(openLog[s][i])
         /\ openLog[s][i].counter < cctx[s].decryption_counter
    /\ StrictlyUp(sealLog[s])
    /\ StrictlyUp(openLog[s])

C5_CountersUp ==
  \A s \in Sides :
    /\ cctx'[s].encryption_counter >= cctx[s].encryption_counter
    /\ cctx'[s].decryption_counter >= cctx[s].decryption_counter

\* C5: across any sequence of pair_encrypt and pair_decrypt calls on a
\* context, the nonce of every sealed or opened block is four zero bytes and
\* the counter of its direction at that moment, no counter ever decreases,
\* and no two blocks sealed (or opened) by one context share a counter value
\* or a nonce.
C5_NonceDiscipline == []C5_LogDiscipline /\ [][C5_CountersUp]_vars

\* C5 witness: end a has sealed three blocks or more and end b opened two.
C5_Witness == Len(sealLog["a"]) >= 3 /\ Len(openLog["b"]) >= 2

\* the last call was pair_decrypt on an unchanged buffer some end sent
OpenedSent ==
  cres.op = "decrypt" /\ cres.cut = 0 /\ cres.tamper = 0 /\ sent.from # "none" /\ sent.intact

\* C9: pair_decrypt on a buffer pair_encrypt made from a text of 1, 1024,
\* 1025 or 4096 bytes returns that text, by a context whose decryption key
\* and counter are the key and counter the sealing started with.
C9_RoundTrip ==
  (OpenedSent /\ cres.key = sent.key /\ cres.counter0 = sent.counter0) =>
     /\ cres.ret = 0
     /\ cres.len = sent.len
     /\ cres.text = Plain(sent.len, sent.seed)

\* C9 witness: a text of 4096 bytes, sent in four blocks, has come back.
C9_Witness ==
  /\ OpenedSent /\ cres.ret = 0
  /\ sent.len = 4 * ENCRYPTED_LEN_MAX /\ sent.nblocks = 4
  /\ cres.text = Plain(sent.len, sent.seed)

\* the last call was pair_decrypt by the end that did not send the buffer,
\* its receive counter at the value the sender's send counter started from
OpenedByOther ==
  OpenedSent /\ cres.side # sent.from /\ cres.counter0 = sent.counter0

\* C10 (as claimed): two contexts built with pair_cipher_new from the same
\* shared secret each decrypt what the other encrypted.
C10_TwoNewContexts ==
  (OpenedByOther /\ cctx.bkind = "new") =>
     (cres.ret = 0 /\ cres.text = Plain(sent.len, sent.seed))

\* C10 (amended): a context built with pair_cipher_new and the context of
\* the other end that holds the same two keys in the opposite roles each
\* decrypt what the other encrypted; two contexts both built with
\* pair_cipher_new do not: pair_decrypt fails on the tag of the first block.
C10_OppositeRoles ==
  OpenedByOther =>
     IF cctx.bkind = "accessory"
       THEN cres.ret = 0 /\ cres.text = Plain(sent.len, sent.seed)
       ELSE /\ cres.ret = -1 /\ cres.counter1 = cres.counter0
            /\ cctx[cres.side].errmsg = "Decryption with chacha poly1305 failed"

\* C10 witness: the pair_cipher_new end has decrypted a two-block text the
\* accessory end sent.
C10_Witness ==
  /\ OpenedByOther /\ cctx.bkind = "accessory"
  /\ cres.side = "a" /\ cres.ret = 0 /\ sent.nblocks = 2

----------------------------------------------------------------------------
(* Claims about the framing *)

\* the last call was pair_decrypt on a buffer of pair_encrypt that arrived
\* without its final byte
OpenedCut == cres.op = "decrypt" /\ cres.cut = 1 /\ sent.from # "none"

\* C11: pair_decrypt on a buffer of pair_encrypt whose final byte (the last
\* byte of the last block's tag) was removed returns -1 and hands back no
\* plaintext, whatever number of whole blocks precede the damaged one.
C11_TruncatedTagFails ==
  OpenedCut =>
     /\ cres.ret = -1
     /\ cres.len = 0 /\ cres.text = <<>>
     /\ (cres.counter0 = sent.counter0) =>
           cctx[cres.side].errmsg = "Corrupt block length in encrypted data"

\* C11 witness: a four-block buffer arrived without its final byte; the
\* three whole blocks were opened before the call failed.
C11_Witness ==
  /\ OpenedCut /\ sent.nblocks = 4 /\ cres.ret = -1
  /\ cres.counter1 = cres.counter0 + 3

\* block k of the buffer buf is: the two bytes of blen, the ciphertext of the
\* blen bytes of text from place k * ENCRYPTED_LEN_MAX on, and the 16-byte
\* tag of the sealing under key and counter
FrameIs(buf, k, blen, text, key, counter) ==
  LET off == FrameOff(k)
      prefix == LEBytes(blen, BLOCK_LEN_SIZE)
      chunk == SubSeq(text, k * ENCRYPTED_LEN_MAX + 1, k * ENCRYPTED_LEN_MAX + blen)
      sealed == encrypt_chacha(chunk, key, prefix, ChannelNonce(counter), FALSE)
  IN /\ off + BLOCK_LEN_SIZE + blen + AUTHTAG_LENGTH <= Len(buf)
     /\ SubSeq(buf, off + 1, off + BLOCK_LEN_SIZE) = <<Byte(prefix[1]), Byte(prefix[2])>>
     /\ SubSeq(buf, off + BLOCK_LEN_SIZE + 1, off + BLOCK_LEN_SIZE + blen) = sealed.cipher
     /\ Len(sealed.cipher) = blen
     /\ SubSeq(buf, off + BLOCK_LEN_SIZE + blen + 1,
               off + BLOCK_LEN_SIZE + blen + AUTHTAG_LENGTH) = sealed.tag
     /\ Len(sealed.tag) = AUTHTAG_LENGTH

\* the last call was a pair_encrypt that returned 0; wire holds its output
Sealed == cres.op = "encrypt" /\ cres.ret = 0

\* C12: pair_encrypt splits a plaintext of L >= 1 bytes into ceil(L / 1024)
\* consecutive blocks, all but the last of 1024 plaintext bytes and the last
\* of the remaining 1..1024, each block a 2-byte length, the ciphertext and
\* a 16-byte tag; the output has L + 18 * n bytes.
C12_BlockLayout ==
  Sealed =>
     LET L == cres.inlen
         n == BlocksFor(L)
         last == L - ENCRYPTED_LEN_MAX * (n - 1)
     IN /\ L >= 1
        /\ last \in 1..ENCRYPTED_LEN_MAX
        /\ sent.nblocks = n
        /\ cres.len = L + (BLOCK_LEN_SIZE + AUTHTAG_LENGTH) * n
        /\ Len(wire) = cres.len
        /\ \A k \in 0..(n - 1) :
             FrameIs(wire, k, IF k < n - 1 THEN ENCRYPTED_LEN_MAX ELSE last,
                     Plain(sent.len, sent.seed), cres.key, cres.counter0 + k)

\* C12 witness: a 4096-byte plaintext was sealed into four blocks.
C12_Witness ==
  Sealed /\ cres.inlen = 4 * ENCRYPTED_LEN_MAX /\ sent.nblocks = 4

\* the number of blocks of a well-formed buffer, from offset off on, read
\* from its length prefixes
RECURSIVE FrameCount(_, _)
FrameCount(buf, off) ==
  IF off + BLOCK_LEN_SIZE > Len(buf) THEN 0
  ELSE 1 + FrameCount(buf, off + BLOCK_LEN_SIZE + ByteVal(buf[off + 1])
                                + 256 * ByteVal(buf[off + 2]) + AUTHTAG_LENGTH)

\* C13: a pair_encrypt call that returns 0 advances encryption_counter by
\* the number of blocks it emitted, and a pair_decrypt call that returns 0
\* advances decryption_counter by the number of blocks it consumed.
C13_OneCounterPerBlock ==
  /\ Sealed => cres.counter1 = cres.counter0 + FrameCount(wire, 0)
  /\ (cres.op = "decrypt" /\ cres.ret = 0) =>
        cres.counter1 = cres.counter0 + FrameCount(Received(cres.cut), 0)

\* C13 witness: a two-block buffer was opened and the counter moved by two.
C13_Witness ==
  /\ cres.op = "decrypt" /\ cres.ret = 0
  /\ FrameCount(wire, 0) = 2 /\ cres.counter1 = cres.counter0 + 2

\* C14 (as claimed): after N successful pair_encrypt calls on a freshly
\* created context, and no failed one, encryption_counter equals N.
C14_CounterEqualsCalls ==
  \A s \in Sides :
    ~calls[s].failed => cctx[s].encryption_counter = calls[s].ok

\* C14 (amended): after N successful pair_encrypt calls on a freshly created
\* context, and no failed one, encryption_counter equals the number of
\* blocks of the N plaintexts, ceil(L / 1024) for each; it is N when every
\* plaintext has at most 1024 bytes and more than N otherwise.
C14_CounterEqualsBlocks ==
  \A s \in Sides :
    ~calls[s].failed =>
       /\ cctx[s].encryption_counter = calls[s].blocks
       /\ cctx[s].encryption_counter >= calls[s].ok

\* C14 witness: two successful calls, one of them with a plaintext of more
\* than one block, have left the counter at 3.
C14_Witness ==
  /\ ~calls["a"].failed /\ calls["a"].ok = 2
  /\ cctx["a"].encryption_counter = 3

\* the messages pair_encrypt and pair_decrypt have for their failures
CipherMessages(op) ==
  IF op = "encrypt" THEN {"Encryption with chacha poly1305 failed"}
  ELSE {"Corrupt block length in encrypted data", "Decryption with chacha poly1305 failed"}

\* C17: every pair_encrypt or pair_decrypt call that returns -1 (the empty
\* plaintext and the ciphertext shorter than a length prefix included)
\* leaves on the context an error message for that failure.
C17_FailureLeavesMessage ==
  (cres.op \in {"encrypt", "decrypt"} /\ cres.ret = -1) =>
     cctx[cres.side].errmsg \in CipherMessages(cres.op)

\* the keys of the context of end s stay as they are in a step
KeysKept(s) ==
  /\ cctx'[s].encryption_key = cctx[s].encryption_key
  /\ cctx'[s].decryption_key = cctx[s].decryption_key

\* C34: the two directions of a cipher context are independent: a context
\* made by pair_cipher_new starts with both counters at 0, pair_encrypt never
\* changes the decryption counter or a key, pair_decrypt never changes the
\* encryption counter or a key, and no call makes a counter smaller.
C34_DirectionsIndependent ==
  /\ cctx.a.encryption_counter = 0 /\ cctx.a.decryption_counter = 0
  /\ [][\A s \in Sides :
          /\ KeysKept(s)
          /\ cres'.op = "encrypt" =>
                cctx'[s].decryption_counter = cctx[s].decryption_counter
          /\ cres'.op = "decrypt" =>
                cctx'[s].encryption_counter = cctx[s].encryption_counter
          /\ cctx'[s].encryption_counter >= cctx[s].encryption_counter
          /\ cctx'[s].decryption_counter >= cctx[s].decryption_counter]_vars

\* C34 witness: the context made by pair_cipher_new has sealed blocks and
\* has just opened one, so both of its counters have moved.
C34_Witness ==
  /\ cres.op = "decrypt" /\ cres.side = "a" /\ cres.ret = 0
  /\ cctx.a.encryption_counter > 0
  /\ cctx.a.decryption_counter > 0
  /\ cres.counter1 > cres.counter0

\* C33: the length prefix is written in clear and authenticated: for every
\* buffer of pair_encrypt, pair_decrypt on the buffer with the length prefix
\* of any one block changed to another value returns -1 with the
\* corrupt-block-length or the authentication message and no plaintext.
C33_PrefixAuthenticated ==
  (cres.op = "decrypt" /\ cres.tamper > 0) =>
     /\ cres.ret = -1
     /\ cres.len = 0 /\ cres.text = <<>>
     /\ cctx[cres.side].errmsg \in CipherMessages("decrypt")

\* C33 witness: the second block of a two-block buffer arrived with its
\* length prefix changed to a value that still fits the buffer; the first
\* block was opened, the second did not authenticate.
C33_Witness ==
  /\ cres.op = "decrypt" /\ cres.tamper = 2 /\ sent.nblocks = 2
  /\ cres.counter0 = sent.counter0 /\ cres.counter1 = cres.counter0 + 1
  /\ cres.ret = -1
  /\ cctx[cres.side].errmsg = "Decryption with chacha poly1305 failed"

\* C35: the assertions after the loops hold whenever they are reached:
\* after pair_encrypt's loop the plaintext cursor is at plaintext +
\* plaintext_len and the output cursor at ciphertext + ciphertext_len; after
\* pair_decrypt's loop the input cursor is at ciphertext + ciphertext_len and
\* the output cursor below plaintext + ciphertext_len.
C35_AssertionsHold ==
  /\ (cres.op = "encrypt" /\ cres.ret = 0) =>
        (cres.plain_off = cres.inlen /\ cres.cipher_off = cres.len)
  /\ (cres.op = "decrypt" /\ cres.ret = 0) =>
        (cres.cipher_off = cres.inlen /\ cres.plain_off < cres.inlen)

\* C35 witness: a four-block buffer was sealed and then opened, and both
\* loops ended with their cursors at the ends.
C35_Witness ==
  /\ cres.op = "decrypt" /\ cres.ret = 0 /\ sent.nblocks = 4
  /\ cres.cipher_off = Len(wire) /\ cres.inlen = Len(wire)
  /\ cres.plain_off = 4 * ENCRYPTED_LEN_MAX
  /\ Len(wire) = CiphertextLen(4, 4 * ENCRYPTED_LEN_MAX)

\* C27: pair_decrypt never reads a byte at or beyond ciphertext +
\* ciphertext_len, also when a single byte follows the last whole block.
C27_NoReadPastBuffer ==
  cres.op = "decrypt" => cres.maxread < cres.inlen

\* C28: a pair_encrypt or pair_decrypt call that returns -1 leaves the
\* counter it works with where it was before the call, also when blocks
\* were sealed or opened before the one that failed.
C28_FailureKeepsCounters ==
  (cres.op \in {"encrypt", "decrypt"} /\ cres.ret = -1) =>
     cres.counter1 = cres.counter0

----------------------------------------------------------------------------
(* SRP-6a user (struct SRPUser).  Big numbers are integers; the group is a *)
(* small one chosen like the 3072-bit group of the program: N is a prime   *)
(* with its top bit set, so that 2N needs one byte more than N, and g = 5. *)
(* SHA-512 is an ideal hash: a digest is the term of its input (pre), and  *)
(* the number bnum_bin2bn reads from a digest is a fold of that input      *)
(* (num).  A digest hashed again goes in between two marks.                *)

\* N of the group, a two-byte prime (0x8003)
NG_N == 32771
\* g of global_Ng_constants[SRP_NG_3072]
NG_g == 5
\* a bnum that is a null pointer
NullBn == -1
\* the modulus of the fold that stands for reading a digest as a number
HashMod == 251

\* USERNAME "Pair-Setup" as ASCII
USERNAME == <<80, 97, 105, 114, 45, 83, 101, 116, 117, 112>>

RECURSIVE bnum_num_bytes(_)
bnum_num_bytes(n) == IF n = 0 THEN 0 ELSE 1 + bnum_num_bytes(n \div 256)

\* bnum_bn2bin: the len = bnum_num_bytes(n) bytes of n, most significant first
RECURSIVE bnum_bn2bin(_, _)
bnum_bn2bin(n, len) ==
  IF len = 0 THEN <<>> ELSE bnum_bn2bin(n \div 256, len - 1) \o <<n % 256>>

\* bnum_bin2bn: the number of a big-endian byte string (0 for no bytes)
RECURSIVE bnum_bin2bn(_)
bnum_bin2bn(bytes) ==
  IF bytes = <<>> THEN 0
  ELSE 256 * bnum_bin2bn(SubSeq(bytes, 1, Len(bytes) - 1)) + bytes[Len(bytes)]

\* y^q mod p by squaring, for q >= 0 and y already in [0, p)
RECURSIVE ModExpNat(_, _, _)
ModExpNat(y, q, p) ==
  IF q = 0 THEN 1 % p
  ELSE LET h == ModExpNat(y, q \div 2, p)
           h2 == (h * h) % p
       IN IF q % 2 = 1 THEN (h2 * y) % p ELSE h2

\* the power of the magnitude of the base, its sign dropped
bnum_modexp_abs(y, q, p) == ModExpNat((IF y < 0 THEN 0 - y ELSE y) % p, q, p)

\* bnum_modexp(bn, y, q, p): BN_mod_exp / gcry_mpi_powm give the residue in
\* [0, p), also for a negative base y
bnum_modexp(y, q, p) == ModExpNat(((y % p) + p) % p, q, p)

RECURSIVE HashFold(_, _)
HashFold(bytes, h) ==
  IF bytes = <<>> THEN h
  ELSE HashFold(Tail(bytes), (31 * h + Head(bytes) + 7) % HashMod)

\* hash(alg, d, n, md)
hash(bytes) == [num |-> HashFold(bytes, 1), pre |-> bytes]

\* a digest-sized array that calloc zeroed and nothing was written to
ZeroDigest == [num |-> 0, pre |-> <<-1>>]

\* the bytes of a digest as input of another hash
DigestBytes(d) == <<256>> \o d.pre \o <<257>>

\* H_nn_pad: H(n1 | 0.. | n2) in a buffer of twice the length of n1; a null
\* pointer if n2 has no bytes or more bytes than n1
H_nn_pad(n1, n2) ==
  LET len_n1 == bnum_num_bytes(n1)
      len_n2 == bnum_num_bytes(n2)
  IN IF len_n2 < 1 \/ len_n2 > len_n1
       THEN NullBn
       ELSE hash(bnum_bn2bin(n1, len_n1) \o Zeros(len_n1 - len_n2)
                 \o bnum_bn2bin(n2, len_n2)).num

\* H_ns: H(n | bytes) as a number
H_ns(n, bytes) == hash(bnum_bn2bin(n, bnum_num_bytes(n)) \o bytes).num

\* calculate_x: H(salt | H(username ":" password))
calculate_x(salt, username, password) ==
  H_ns(salt, DigestBytes(hash(username \o <<58>> \o password)))

\* hash_num: H(n)
hash_num(n) == hash(bnum_bn2bin(n, bnum_num_bytes(n)))

\* the first len bytes of the array K as hash input
KeyBytes(K, len) == IF len = 0 THEN <<>> ELSE DigestBytes(K)

\* calculate_M: H(H(N) xor H(g) | H(I) | s | A | B | K)
calculate_M(I, s, A, B, K, K_len) ==
  hash(<<258>> \o DigestBytes(hash_num(NG_N)) \o DigestBytes(hash_num(NG_g))
       \o DigestBytes(hash(I))
       \o bnum_bn2bin(s, bnum_num_bytes(s))
       \o bnum_bn2bin(A, bnum_num_bytes(A))
       \o bnum_bn2bin(B, bnum_num_bytes(B))
       \o KeyBytes(K, K_len))

\* calculate_H_AMK: H(A | M | K)
calculate_H_AMK(A, M, K, K_len) ==
  hash(bnum_bn2bin(A, bnum_num_bytes(A)) \o DigestBytes(M) \o KeyBytes(K, K_len))

\* srp_user_new(HASH_SHA512, SRP_NG_3072, username, password, len, 0, 0)
srp_user_new(username, bytes_password) ==
  [a |-> 0, A |-> 0, S |-> 0, bytes_A |-> <<>>, authenticated |-> 0,
   username |-> username, password |-> bytes_password,
   M |-> ZeroDigest, H_AMK |-> ZeroDigest,
   session_key |-> ZeroDigest, session_key_len |-> 0]

\* srp_user_get_session_key: the address of the array in the user, and its
\* recorded length
srp_user_get_session_key(usr) ==
  [session_key |-> usr.session_key, key_length |-> usr.session_key_len]

\* the exponent itself handed out as the public value
srp_user_start_authentication_a(usr, a) ==
  [usr |-> [usr EXCEPT !.a = a, !.A = a,
                       !.bytes_A = bnum_bn2bin(a, bnum_num_bytes(a))],
   bytes_A |-> bnum_bn2bin(a, bnum_num_bytes(a)),
   len_A |-> bnum_num_bytes(a)]

\* srp_user_start_authentication; a: the number bnum_random drew
srp_user_start_authentication(usr, a) ==
  LET A == bnum_modexp(NG_g, a, NG_N)
  IN [usr |-> [usr EXCEPT !.a = a, !.A = A,
                          !.bytes_A = bnum_bn2bin(A, bnum_num_bytes(A))],
      bytes_A |-> bnum_bn2bin(A, bnum_num_bytes(A)),
      len_A |-> bnum_num_bytes(A)]

\* the SRP-6a safety check of srp_user_process_challenge
SafetyCheck(B, u) == B # 0 /\ u # 0

\* srp_user_process_challenge: bytes_M is "NULL" or "M" (the array M of the
\* user), computed tells whether S, the session key, M and H_AMK were written
srp_user_process_challenge(usr, bytes_s, bytes_B) ==
  LET s == bnum_bin2bn(bytes_s)
      B == bnum_bin2bn(bytes_B)
      k == H_nn_pad(NG_N, NG_g)
      u == H_nn_pad(usr.A, B)
      x == calculate_x(s, usr.username, usr.password)
      none == [usr |-> usr, bytes_M |-> "NULL", len_M |-> 0, computed |-> FALSE]
  IN IF k = NullBn THEN none
     ELSE IF u = NullBn THEN none
     ELSE IF SafetyCheck(B, u)
       THEN LET tmp2 == usr.a + u * x
                tmp3 == k * bnum_modexp(NG_g, x, NG_N)
                tmp1 == B - tmp3
                S == bnum_modexp(tmp1, tmp2, NG_N)
                K == hash_num(S)
                M == calculate_M(usr.username, s, usr.A, B, K, SHA512_DIGEST_LENGTH)
                H == calculate_H_AMK(usr.A, M, K, SHA512_DIGEST_LENGTH)
            IN [usr |-> [usr EXCEPT !.S = S, !.session_key = K,
                                    !.session_key_len = SHA512_DIGEST_LENGTH,
                                    !.M = M, !.H_AMK = H],
                bytes_M |-> "M", len_M |-> SHA512_DIGEST_LENGTH, computed |-> TRUE]
       ELSE none

\* A buffer of size bytes that starts like the 64 bytes of digest (the bytes
\* after the 64th, if any, are of no interest)
DigestPrefix(size, digest) == [size |-> size, digest |-> digest]

\* the bytes of the buffer buf, as far as it has any, are those of digest d
PrefixEqual(d, buf) == buf.size = 0 \/ d = buf.digest

\* the bytes memcmp(d, buf, 64) reads at buf at the least: all 64 if no
\* byte of the buffer differs, one otherwise
MemcmpRead(d, buf) ==
  IF PrefixEqual(d, buf) THEN SHA512_DIGEST_LENGTH ELSE 1

\* srp_user_verify_session: memcmp of the hash length of H_AMK and the
\* bytes at bytes_HAMK, a buffer of bytes_HAMK.size bytes; stray: the bytes
\* that follow a shorter buffer in memory are those of the rest of H_AMK
srp_user_verify_session(usr, bytes_HAMK, stray) ==
  IF /\ PrefixEqual(usr.H_AMK, bytes_HAMK)
     /\ (bytes_HAMK.size >= SHA512_DIGEST_LENGTH \/ stray)
    THEN [usr EXCEPT !.authenticated = 1] ELSE usr

srp_user_is_authenticated(usr) == usr.authenticated

----------------------------------------------------------------------------
(* The TLV codec (tlv.h).  A buffer is a sequence of items, one per TLV    *)
(* record; an item of type "garbage" stands for bytes that are no record.  *)

Tlv(type, value) == [type |-> type, value |-> value]

\* tlv_parse: -1 if some part of the buffer is no record
tlv_parse(data) == IF \E i \in DOMAIN data : data[i].type = "garbage" THEN -1 ELSE 0

\* tlv_get_value found a record of this type
tlv_has(items, type) == \E i \in DOMAIN items : items[i].type = type

\* tlv_get_value: the value of the first record of this type
tlv_get_value(items, type) ==
  items[CHOOSE i \in DOMAIN items :
          /\ items[i].type = type
          /\ \A j \in DOMAIN items : items[j].type = type => i <= j].value

\* enum TLVError
TLVErrors == {"Authentication", "Backoff", "MaxPeers", "MaxTries", "Unavailable", "Busy"}

\* response_process: the parsed records, or NULL with the message of the
\* parse failure or of the error code the peer sent
response_process(data) ==
  IF tlv_parse(data) < 0
    THEN [null |-> TRUE, items |-> <<>>, errmsg |-> "Could not parse TLV\n"]
  ELSE IF tlv_has(data, "Error")
    THEN [null |-> TRUE, items |-> <<>>,
          errmsg |-> CASE tlv_get_value(data, "Error") = "Authentication" ->
                            "Device returned an authtication failure"
                       [] tlv_get_value(data, "Error") = "Backoff" ->
                            "Device told us to back off pairing attempts\n"
                       [] tlv_get_value(data, "Error") = "MaxPeers" ->
                            "Max peers trying to connect to device\n"
                       [] tlv_get_value(data, "Error") = "MaxTries" ->
                            "Max pairing attemps reached\n"
                       [] tlv_get_value(data, "Error") = "Unavailable" ->
                            "Device is unuavailble at this time\n"
                       [] OTHER -> "Device is busy/returned unknown error\n"]
  ELSE [null |-> FALSE, items |-> data, errmsg |-> ""]

----------------------------------------------------------------------------
(* Ed25519 (libsodium), ideal.  A secret key is 64 bytes, the seed and   *)
(* the public key that belongs to the seed; a signature is the term of the *)
(* two halves of the key it was made with and of the message.              *)

\* crypto_sign_PUBLICKEYBYTES, crypto_sign_SECRETKEYBYTES
PUBLICKEYBYTES == 32
SECRETKEYBYTES == 64

\* the public key that belongs to a seed
PkOfSeed(sd) == [i \in 1..PUBLICKEYBYTES |-> (sd[i] + 156) % 256]

\* the 32 bytes the random source yields on its draw number seed
RandomBytes(seed) == [i \in 1..PUBLICKEYBYTES |-> (16 * seed + i) % 256]

\* crypto_sign_keypair; seed: the draw of the random source
crypto_sign_keypair(seed) ==
  [public_key |-> PkOfSeed(RandomBytes(seed)),
   private_key |-> RandomBytes(seed) \o PkOfSeed(RandomBytes(seed))]

crypto_sign_detached(m, sk) ==
  [seed |-> SubSeq(sk, 1, PUBLICKEYBYTES),
   signer |-> SubSeq(sk, PUBLICKEYBYTES + 1, SECRETKEYBYTES), msg |-> m]

crypto_sign_verify_detached(sig, m, pk) ==
  sig.signer = pk /\ PkOfSeed(sig.seed) = pk /\ sig.msg = m

\* the label first and the zero bytes after it
HandshakeNonce_raw(stage) == pair_keys_map(stage).nonce \o Zeros(4)

\* the 12-byte nonce of a handshake message: 4 zero bytes and the label
HandshakeNonce(stage) == Zeros(4) \o pair_keys_map(stage).nonce

\* the signed record with the two keys in each other's place
create_and_sign_device_info_swapped(device_id, device_pk, pk, sk) ==
  << Tlv("Identifier", device_id),
     Tlv("Signature", crypto_sign_detached(<<pk, device_id, device_pk>>, sk)) >>

\* create_and_sign_device_info: Identifier and Signature records, the
\* signature over device_pk | device_id | pk made with sk
create_and_sign_device_info(device_id, device_pk, pk, sk) ==
  << Tlv("Identifier", device_id),
     Tlv("Signature", crypto_sign_detached(<<device_pk, device_id, pk>>, sk)) >>

\* C32: within one pair-setup flow and within one pair-verify flow no two
\* messages are sealed or opened under the same (key, nonce) pair: whenever
\* two stages of the table derive the same key from the same secret, their
\* nonces differ.
C32_NoKeyNonceReuse ==
  (SameSecretPair /\ kcur.stage # kprev.stage /\ kcur.okm = kprev.okm) =>
     HandshakeNonce(kcur.stage) # HandshakeNonce(kprev.stage)

\* C32 witness: the keys of setup M5 and setup M6 have been derived from one
\* session key and are the same 32 bytes.
C32_Witness ==
  /\ SameSecretPair /\ kcur.okm = kprev.okm /\ kcur.okm_len = KEY_LENGTH
  /\ kprev.stage = "PAIR_SETUP_MSG05" /\ kcur.stage = "PAIR_SETUP_MSG06"

----------------------------------------------------------------------------
(* The authorisation key: the hex digits of the public and the secret key *)

\* the digit d printed as the character after '0' + d
HexDigitChar_plain(d) == 48 + d

\* sprintf("%02x"): the two lower-case hex digits of a byte, as ASCII
HexDigitChar(d) == IF d < 10 THEN 48 + d ELSE 87 + d
HexString(bytes) ==
  [i \in 1..(2 * Len(bytes)) |->
     HexDigitChar(IF i % 2 = 1 THEN bytes[(i + 1) \div 2] \div 16
                  ELSE bytes[i \div 2] % 16)]

\* the value of a character as a hex digit, -1 if it is none
HexDigitVal(c) ==
  IF c >= 48 /\ c <= 57 THEN c - 48
  ELSE IF c >= 97 /\ c <= 102 THEN c - 87
  ELSE IF c >= 65 /\ c <= 70 THEN c - 55
  ELSE -1

\* isspace
IsSpace(c) == c = 32 \/ (c >= 9 /\ c <= 13)

\* strtol(hex, NULL, 16) of the two characters c1 c2, stored in a uint8_t:
\* white space is skipped, a sign is taken, then the digits up to the first
\* character that is none ("0x" reads as 0); 0 if there is no digit
strtol16(c1, c2) ==
  IF IsSpace(c1) \/ c1 = 43
    THEN (IF HexDigitVal(c2) < 0 THEN 0 ELSE HexDigitVal(c2))
  ELSE IF c1 = 45
    THEN (IF HexDigitVal(c2) < 0 THEN 0 ELSE (256 - HexDigitVal(c2)) % 256)
  ELSE IF HexDigitVal(c1) < 0 THEN 0
  ELSE IF HexDigitVal(c2) < 0 THEN HexDigitVal(c1)
  ELSE 16 * HexDigitVal(c1) + HexDigitVal(c2)

\* the n bytes decoded from the 2n characters of str after offset off
HexDecode(str, off, n) ==
  [i \in 1..n |-> strtol16(str[off + 2 * i - 1], str[off + 2 * i])]

----------------------------------------------------------------------------
(* Pair-setup: struct pair_setup_context and its API.  A null pointer to   *)
(* a struct or a buffer is the empty tuple, a pointer to x is <<x>>.       *)

\* no device id is turned down
DeviceIdRejected_never(device_id) == FALSE

\* device_id && strlen(device_id) != 16; a string argument is [null, str]
DeviceIdRejected(device_id) == ~device_id.null /\ Len(device_id.str) # 16

\* pair_setup_new(pin, device_id): the context calloc zeroed, with the first
\* four bytes of the pin and the device id copied in
pair_setup_new(pin, device_id) ==
  IF pin.null \/ Len(pin.str) < 4 THEN <<>>
  ELSE IF DeviceIdRejected(device_id) THEN <<>>
  ELSE << [user |-> <<>>,
           pin |-> SubSeq(pin.str, 1, 4),
           device_id |-> IF device_id.null THEN <<>> ELSE device_id.str,
           pkA |-> <<>>, pkA_len |-> 0,
           pkB |-> <<>>, pkB_len |-> 0,
           M1 |-> "NULL", M1_len |-> 0,
           M2 |-> <<>>, M2_len |-> 0,
           salt |-> <<>>, salt_len |-> 0,
           public_key |-> Zeros(PUBLICKEYBYTES),
           private_key |-> Zeros(SECRETKEYBYTES),
           auth_key |-> <<>>,
           errmsg |-> ""] >>

\* the outcome of a request call that dereferences a null struct SRPUser
\* pointer: the process is stopped by the fault; -1 in ret then has no meaning
Crash(ctx) == [sctx |-> ctx, crash |-> TRUE, data |-> <<>>]

\* pair_setup_request1: a new SRP user (the old one is not freed), M1
pair_setup_request1(ctx) ==
  [sctx |-> [ctx EXCEPT !.user = <<srp_user_new(USERNAME, ctx.pin)>>],
   crash |-> FALSE,
   data |-> << Tlv("State", pair_keys_map("PAIR_SETUP_MSG01").state),
               Tlv("Method", 0) >>]

\* pair_setup_request2: A and the proof M1 from the stored salt and B; the
\* Proof record is added with whatever process_challenge handed back
pair_setup_request2(ctx, a) ==
  IF ctx.user = <<>> THEN Crash(ctx)
  ELSE
    LET sa == srp_user_start_authentication(ctx.user[1], a)
        pc == srp_user_process_challenge(sa.usr, ctx.salt, ctx.pkB)
    IN [sctx |-> [ctx EXCEPT !.user = <<pc.usr>>,
                             !.pkA = sa.bytes_A, !.pkA_len = sa.len_A,
                             !.M1 = pc.bytes_M, !.M1_len = pc.len_M],
        crash |-> FALSE,
        data |-> << Tlv("State", pair_keys_map("PAIR_SETUP_MSG03").state),
                    Tlv("PublicKey", sa.bytes_A),
                    Tlv("Proof", IF pc.bytes_M = "M" THEN <<pc.usr.M>> ELSE <<>>) >>]

\* pair_setup_request3: the only test is on the address of the session key
\* array, which is never null; seed: the keypair crypto_sign_keypair drew
pair_setup_request3(ctx, seed, fail) ==
  IF ctx.user = <<>> THEN Crash(ctx)
  ELSE
    LET sk == srp_user_get_session_key(ctx.user[1])
        device_x == hkdf_extract_expand(KEY_LENGTH, sk.session_key, sk.key_length,
                                        "PAIR_SETUP_SIGN")
        kp == crypto_sign_keypair(seed)
        ctx1 == [ctx EXCEPT !.public_key = kp.public_key,
                            !.private_key = kp.private_key]
        info == create_and_sign_device_info(ctx.device_id, device_x.okm,
                                            kp.public_key, kp.private_key)
        derived_key == hkdf_extract_expand(KEY_LENGTH, sk.session_key,
                                           SHA512_DIGEST_LENGTH, "PAIR_SETUP_MSG05")
        payload == info \o << Tlv("PublicKey", kp.public_key) >>
        enc == encrypt_chacha(payload, derived_key.okm, <<>>,
                              HandshakeNonce("PAIR_SETUP_MSG05"), fail)
    IN IF device_x.ret < 0
         THEN [sctx |-> [ctx EXCEPT !.errmsg = "Setup request 3: hkdf error getting device_x"],
               crash |-> FALSE, data |-> <<>>]
       ELSE IF derived_key.ret < 0
         THEN [sctx |-> [ctx1 EXCEPT !.errmsg = "Setup request 3: hkdf error getting derived_key"],
               crash |-> FALSE, data |-> <<>>]
       ELSE IF enc.ret < 0
         THEN [sctx |-> [ctx1 EXCEPT !.errmsg = "Setup request 3: Could not encrypt"],
               crash |-> FALSE, data |-> <<>>]
       ELSE [sctx |-> ctx1, crash |-> FALSE,
             data |-> << Tlv("State", pair_keys_map("PAIR_SETUP_MSG05").state),
                         Tlv("EncryptedData", enc.cipher \o enc.tag) >>]

\* pair_setup_response1 storing B as soon as it is found
pair_setup_response1_eager(ctx, data) ==
  LET response == response_process(data)
      ctx1 == IF ~response.null /\ tlv_has(response.items, "PublicKey")
                THEN [ctx EXCEPT
                        !.pkB = tlv_get_value(response.items, "PublicKey"),
                        !.pkB_len = Len(tlv_get_value(response.items, "PublicKey"))]
                ELSE ctx
  IN IF response.null
       THEN [sctx |-> [ctx EXCEPT !.errmsg = "Setup response 1: Could not parse TLV"],
             ret |-> -1, crash |-> FALSE]
     ELSE IF ~tlv_has(response.items, "PublicKey") \/ ~tlv_has(response.items, "Salt")
       THEN [sctx |-> [ctx1 EXCEPT !.errmsg = "Setup response 1: Missing or invalid pk/salt"],
             ret |-> -1, crash |-> FALSE]
     ELSE [sctx |-> [ctx1 EXCEPT
                       !.salt = tlv_get_value(response.items, "Salt"),
                       !.salt_len = Len(tlv_get_value(response.items, "Salt"))],
           ret |-> 0, crash |-> FALSE]

\* pair_setup_response1: stores B and the salt of M2
pair_setup_response1(ctx, data) ==
  LET response == response_process(data)
  IN IF response.null
       THEN [sctx |-> [ctx EXCEPT !.errmsg = "Setup response 1: Could not parse TLV"],
             ret |-> -1, crash |-> FALSE]
     ELSE IF ~tlv_has(response.items, "PublicKey") \/ ~tlv_has(response.items, "Salt")
       THEN [sctx |-> [ctx EXCEPT !.errmsg = "Setup response 1: Missing or invalid pk/salt"],
             ret |-> -1, crash |-> FALSE]
     ELSE [sctx |-> [ctx EXCEPT
                       !.pkB = tlv_get_value(response.items, "PublicKey"),
                       !.pkB_len = Len(tlv_get_value(response.items, "PublicKey")),
                       !.salt = tlv_get_value(response.items, "Salt"),
                       !.salt_len = Len(tlv_get_value(response.items, "Salt"))],
           ret |-> 0, crash |-> FALSE]

\* pair_setup_response2: stores the proof of M4 in a buffer of its size and
\* compares it to H_AMK; read: the bytes read at M2 (0: none)
pair_setup_response2(ctx, data, stray) ==
  LET response == response_process(data)
  IN IF response.null
       THEN [sctx |-> [ctx EXCEPT !.errmsg = "Setup response 2: Could not parse TLV"],
             ret |-> -1, crash |-> FALSE, read |-> 0]
     ELSE IF ~tlv_has(response.items, "Proof")
       THEN [sctx |-> [ctx EXCEPT !.errmsg = "Setup response 2: Missing proof"],
             ret |-> -1, crash |-> FALSE, read |-> 0]
     ELSE IF ctx.user = <<>>
       THEN [sctx |-> [ctx EXCEPT !.M2 = tlv_get_value(response.items, "Proof"),
                                  !.M2_len = tlv_get_value(response.items, "Proof").size],
             ret |-> -1, crash |-> TRUE, read |-> 0]
     ELSE LET proof == tlv_get_value(response.items, "Proof")
              usr == srp_user_verify_session(ctx.user[1], proof, stray)
              ctx1 == [ctx EXCEPT !.M2 = proof, !.M2_len = proof.size,
                                  !.user = <<usr>>]
              read == MemcmpRead(ctx.user[1].H_AMK, proof)
          IN IF srp_user_is_authenticated(usr) = 0
               THEN [sctx |-> [ctx1 EXCEPT !.errmsg = "Setup response 2: Server authentication failed"],
                     ret |-> -1, crash |-> FALSE, read |-> read]
               ELSE [sctx |-> ctx1, ret |-> 0, crash |-> FALSE, read |-> read]

\* pair_setup_response3: opens M6 and parses what was in it; the identifier
\* and the signature in it are not looked at
pair_setup_response3(ctx, data) ==
  LET response == response_process(data)
      none == <<>>
  IN IF response.null
       THEN [sctx |-> [ctx EXCEPT !.errmsg = "Setup response 3: Could not parse TLV"],
             ret |-> -1, crash |-> FALSE, decrypted |-> none]
     ELSE IF ~tlv_has(response.items, "EncryptedData")
       THEN [sctx |-> [ctx EXCEPT !.errmsg = "Setup response 3: Missing encrypted_data"],
             ret |-> -1, crash |-> FALSE, decrypted |-> none]
     ELSE IF ctx.user = <<>>
       THEN [sctx |-> ctx, ret |-> -1, crash |-> TRUE, decrypted |-> none]
     ELSE
       LET encrypted_data == tlv_get_value(response.items, "EncryptedData")
           sk == srp_user_get_session_key(ctx.user[1])
           derived_key == hkdf_extract_expand(KEY_LENGTH, sk.session_key,
                                              SHA512_DIGEST_LENGTH, "PAIR_SETUP_MSG06")
       IN IF derived_key.ret < 0
            THEN [sctx |-> [ctx EXCEPT !.errmsg = "Setup response 3: hkdf error getting derived_key"],
                  ret |-> -1, crash |-> FALSE, decrypted |-> none]
          ELSE IF Len(encrypted_data) < AUTHTAG_LENGTH
            THEN [sctx |-> [ctx EXCEPT !.errmsg = "Setup response 3: Invalid encrypted data"],
                  ret |-> -1, crash |-> FALSE, decrypted |-> none]
          ELSE
            LET encrypted_len == Len(encrypted_data) - AUTHTAG_LENGTH
                tag == SubSeq(encrypted_data, encrypted_len + 1, Len(encrypted_data))
                dec == decrypt_chacha(SubSeq(encrypted_data, 1, encrypted_len),
                                      derived_key.okm, <<>>, tag,
                                      HandshakeNonce("PAIR_SETUP_MSG06"))
            IN IF dec.ret < 0
                 THEN [sctx |-> [ctx EXCEPT !.errmsg = "Setup response 3: Decryption error"],
                       ret |-> -1, crash |-> FALSE, decrypted |-> none]
               ELSE IF response_process(dec.plain).null
                 THEN [sctx |-> [ctx EXCEPT !.errmsg = "Setup response 3: Could not parse decrypted TLV"],
                       ret |-> -1, crash |-> FALSE, decrypted |-> dec.plain]
               ELSE [sctx |-> ctx, ret |-> 0, crash |-> FALSE, decrypted |-> dec.plain]

\* pair_setup_result: the two key arrays as they are, in hex
pair_setup_result(ctx) ==
  [sctx |-> [ctx EXCEPT !.auth_key = HexString(ctx.public_key) \o HexString(ctx.private_key)],
   ret |-> 0, crash |-> FALSE,
   authorisation_key |-> HexString(ctx.public_key) \o HexString(ctx.private_key)]

----------------------------------------------------------------------------
(* Specification of pair-setup: one context, its API called in any order,  *)
(* with any of a set of peer messages.                                     *)

\* how often each function of the API is called on the context
MaxCalls == 1

\* the keypairs crypto_sign_keypair can draw
MaxKeySeed == 1

\* pair_setup_new arguments: the pin "1234", a device id of 16 bytes
Pins == {[null |-> FALSE, str |-> <<49, 50, 51, 52>>]}
DeviceIds == {[null |-> FALSE, str |-> [i \in 1..16 |-> 65]]}

\* the exponents bnum_random can draw: g^3 has one byte, g^7 two
SrpExponents == {3, 7}

\* the salt and the values B a peer sends: 0, a one-byte B, a two-byte B
\* below N, N itself and 2N (three bytes)
PeerSalts == {<<9, 4>>}
PeerBs == {<<0>>, <<77>>, bnum_bn2bin(20000, 2), bnum_bn2bin(NG_N, 2),
           bnum_bn2bin(2 * NG_N, 3)}

\* bytes that are no TLV record
Garbage == Tlv("garbage", <<>>)

\* what a peer answers to M1
PeerM2 ==
  {<<Garbage>>, << Tlv("State", 2), Tlv("Error", "Authentication") >>,
   << Tlv("State", 2), Tlv("Error", "Backoff") >>,
   << Tlv("State", 2), Tlv("Salt", <<9, 4>>) >>}
  \cup {<< Tlv("State", 2), Tlv("PublicKey", B), Tlv("Salt", s) >> :
          B \in PeerBs, s \in PeerSalts}

\* the proofs a peer sends: the H_AMK of a peer that derived the same key,
\* 64 zero bytes, the digest of something else
PeerProofs(ctx) ==
  {ZeroDigest, hash(<<0>>)}
  \cup (IF ctx.user = <<>> THEN {} ELSE {ctx.user[1].H_AMK})

\* what a peer answers to M3
PeerM4(ctx) ==
  {<<Garbage>>, << Tlv("State", 4), Tlv("Error", "Authentication") >>,
   << Tlv("State", 4) >>}
  \cup {<< Tlv("State", 4), Tlv("Proof", DigestPrefix(SHA512_DIGEST_LENGTH, p)) >> :
          p \in PeerProofs(ctx)}

\* the session key a peer holds: the client's, or another
PeerSessionKeys(ctx) ==
  {hash(<<0>>)} \cup (IF ctx.user = <<>> THEN {ZeroDigest} ELSE {ctx.user[1].session_key})

\* the accessory's long-term key, its identifier, and another signer
AccessorySeed == 8
OtherSeed == 9
AccessoryId == [i \in 1..36 |-> 66]

\* the record an accessory signs in M6
AccessoryInfo(id, pk) == <<"AccessoryX", id, pk>>

\* the sub-TLV of M6: identifier, public key, signature by signer
M6Records(signer) ==
  << Tlv("Identifier", AccessoryId),
     Tlv("PublicKey", crypto_sign_keypair(AccessorySeed).public_key),
     Tlv("Signature",
         crypto_sign_detached(
           AccessoryInfo(AccessoryId, crypto_sign_keypair(AccessorySeed).public_key),
           crypto_sign_keypair(signer).private_key)) >>

\* the peer's sealing of an M6 payload under its session key
SealM6(payload, session_key) ==
  LET key == hkdf_extract_expand(KEY_LENGTH, session_key, SHA512_DIGEST_LENGTH,
                                 "PAIR_SETUP_MSG06").okm
      enc == encrypt_chacha(payload, key, <<>>, HandshakeNonce("PAIR_SETUP_MSG06"), FALSE)
  IN enc.cipher \o enc.tag

\* what a peer answers to M5
\* a payload sealed under the key and the nonce of the client's M5
SealAsM5(payload, session_key) ==
  LET key == hkdf_extract_expand(KEY_LENGTH, session_key, SHA512_DIGEST_LENGTH,
                                 "PAIR_SETUP_MSG05").okm
      enc == encrypt_chacha(payload, key, <<>>, Zeros(4) \o PSMsg05, FALSE)
  IN enc.cipher \o enc.tag

PeerM6(ctx) ==
  {<<Garbage>>, << Tlv("State", 6), Tlv("Error", "MaxTries") >>, << Tlv("State", 6) >>,
   << Tlv("State", 6), Tlv("EncryptedData", <<Garbage>>) >>}
  \cup {<< Tlv("State", 6), Tlv("EncryptedData", SealAsM5(M6Records(AccessorySeed), k)) >> :
          k \in PeerSessionKeys(ctx)}
  \cup {<< Tlv("State", 6), Tlv("EncryptedData", SealM6(p, k)) >> :
          p \in {M6Records(AccessorySeed), M6Records(OtherSeed), <<Garbage>>},
          k \in PeerSessionKeys(ctx)}

\* the signature of an opened M6 payload verifies under the public key in
\* it over the accessory's info
M6SignatureVerifies(payload) ==
  /\ tlv_parse(payload) = 0
  /\ tlv_has(payload, "Identifier") /\ tlv_has(payload, "PublicKey")
  /\ tlv_has(payload, "Signature")
  /\ crypto_sign_verify_detached(
       tlv_get_value(payload, "Signature"),
       AccessoryInfo(tlv_get_value(payload, "Identifier"),
                     tlv_get_value(payload, "PublicKey")),
       tlv_get_value(payload, "PublicKey"))

\* the error code a peer's message carries ("none": it carries none)
PeerErrorOf(data) ==
  IF tlv_parse(data) = 0 /\ tlv_has(data, "Error")
    THEN tlv_get_value(data, "Error") ELSE "none"

SetupOps == {"request1", "response1", "request2", "response2", "request3",
             "response3", "result"}

\* the outcome of the last call and what is remembered of earlier ones:
\* r2ok: pair_setup_response2 has returned 0 on this context; after
\* pair_setup_request2, B, key0, len0, computed: the B it passed to
\* srp_user_process_challenge, the session key before the call and whether
\* the call wrote one; after pair_setup_response3, opened: the payload it
\* opened; after pair_setup_response2, read: the bytes it read at M2
NoSetupCall ==
  [op |-> "new", ret |-> 0, crash |-> FALSE, data |-> <<>>,
   r2ok |-> FALSE,
   calls |-> [op \in SetupOps |-> 0],
   B |-> 0, key0 |-> ZeroDigest, len0 |-> 0, computed |-> FALSE,
   opened |-> <<>>, peerError |-> "none", read |-> 0, input |-> <<>>]

SetupInit ==
  /\ KeysIdle /\ CipherIdle /\ VerifyIdle
  /\ \E pin \in Pins, device_id \in DeviceIds : sctx = pair_setup_new(pin, device_id)[1]
  /\ sres = NoSetupCall

\* the outcome of a call, with what is remembered of earlier calls
Outcome(op, ret, crash, data) ==
  [NoSetupCall EXCEPT !.op = op, !.ret = ret, !.crash = crash, !.data = data,
                      !.r2ok = sres.r2ok,
                      !.calls = [sres.calls EXCEPT ![op] = @ + 1]]

\* the context is there and the function may be called once more
MayCall(op) == sres # <<>> /\ ~sres.crash /\ sres.calls[op] < MaxCalls

\* a request call ended: -1 stands for a null pointer returned
RequestRet(r) == IF r.crash \/ r.data = <<>> THEN -1 ELSE 0

SetupRequest1 ==
  /\ MayCall("request1")
  /\ LET r == pair_setup_request1(sctx)
     IN /\ sctx' = r.sctx
        /\ sres' = Outcome("request1", RequestRet(r), r.crash, r.data)
  /\ UNCHANGED <<keyVars, cipherVars, verifyVars>>

SetupResponse1 ==
  /\ MayCall("response1")
  /\ \E data \in PeerM2 :
       LET r == pair_setup_response1(sctx, data)
       IN /\ sctx' = r.sctx
          /\ sres' = [Outcome("response1", r.ret, r.crash, <<>>) EXCEPT
                        !.peerError = PeerErrorOf(data)]
  /\ UNCHANGED <<keyVars, cipherVars, verifyVars>>

SetupRequest2 ==
  /\ MayCall("request2")
  /\ \E a \in SrpExponents :
       LET r == pair_setup_request2(sctx, a)
       IN /\ sctx' = r.sctx
          /\ sres' = [Outcome("request2", RequestRet(r), r.crash, r.data) EXCEPT
                        !.B = bnum_bin2bn(sctx.pkB),
                        !.key0 = IF sctx.user = <<>> THEN ZeroDigest
                                 ELSE sctx.user[1].session_key,
                        !.len0 = IF sctx.user = <<>> THEN 0
                                 ELSE sctx.user[1].session_key_len,
                        !.computed = ~r.crash /\ r.sctx.M1 = "M"]
  /\ UNCHANGED <<keyVars, cipherVars, verifyVars>>

SetupResponse2 ==
  /\ MayCall("response2")
  /\ \E data \in PeerM4(sctx), stray \in BOOLEAN :
       LET r == pair_setup_response2(sctx, data, stray)
       IN /\ sctx' = r.sctx
          /\ sres' = [Outcome("response2", r.ret, r.crash, <<>>) EXCEPT
                        !.r2ok = sres.r2ok \/ (~r.crash /\ r.ret = 0),
                        !.peerError = PeerErrorOf(data),
                        !.read = r.read]
  /\ UNCHANGED <<keyVars, cipherVars, verifyVars>>

SetupRequest3 ==
  /\ MayCall("request3")
  /\ \E seed \in 1..MaxKeySeed, fail \in BOOLEAN :
       LET r == pair_setup_request3(sctx, seed, fail)
       IN /\ sctx' = r.sctx
          /\ sres' = Outcome("request3", RequestRet(r), r.crash, r.data)
  /\ UNCHANGED <<keyVars, cipherVars, verifyVars>>

SetupResponse3 ==
  /\ MayCall("response3")
  /\ \E data \in PeerM6(sctx) :
       LET r == pair_setup_response3(sctx, data)
       IN /\ sctx' = r.sctx
          /\ sres' = [Outcome("response3", r.ret, r.crash, <<>>) EXCEPT
                        !.opened = r.decrypted,
                        !.peerError = PeerErrorOf(data),
                        !.input = data]
  /\ UNCHANGED <<keyVars, cipherVars, verifyVars>>

SetupResult ==
  /\ MayCall("result")
  /\ LET r == pair_setup_result(sctx)
     IN /\ sctx' = r.sctx
        /\ sres' = Outcome("result", r.ret, r.crash, <<>>)
  /\ UNCHANGED <<keyVars, cipherVars, verifyVars>>

SetupNext ==
  \/ SetupRequest1 \/ SetupResponse1 \/ SetupRequest2 \/ SetupResponse2
  \/ SetupRequest3 \/ SetupResponse3 \/ SetupResult

SpecSetup == SetupInit /\ [][SetupNext]_vars

\* C1: pair_setup_request3 returns an M5 request only if pair_setup_response2
\* has succeeded on the context before and the SRP session's authenticated
\* flag is set; after a failed pair_setup_response2, or without one, it
\* returns no request.
C1_Request3NeedsAuthentication ==
  (sres.op = "request3" /\ ~sres.crash /\ sres.data # <<>>) =>
     (sres.r2ok /\ sctx.user # <<>> /\ sctx.user[1].authenticated = 1)

\* C2: for a peer value B with B mod N = 0, srp_user_process_challenge (as
\* pair_setup_request2 calls it) yields no proof, a null M1 of length 0, and
\* writes no session key.
C2_NoProofForMultipleOfN ==
  (sres.op = "request2" /\ ~sres.crash /\ sres.B % NG_N = 0) =>
     /\ sctx.M1 = "NULL" /\ sctx.M1_len = 0
     /\ ~sres.computed
     /\ sctx.user[1].session_key = sres.key0
     /\ sctx.user[1].session_key_len = sres.len0

\* C3: pair_setup_response3 returns success only for an M6 whose peer
\* signature verifies (here: on a context whose SRP session computed its
\* key and is authenticated, so that the peer holds the session key).
C3_M6SignatureChecked ==
  (/\ sres.op = "response3" /\ ~sres.crash /\ sres.ret = 0
   /\ sres.r2ok /\ sctx.user[1].authenticated = 1
   /\ sctx.user[1].session_key_len = SHA512_DIGEST_LENGTH)
    => M6SignatureVerifies(sres.opened)

\* C23: pair_setup_request2 returns an M3 request only on a context on which
\* pair_setup_request1 has created the SRP session and pair_setup_response1
\* has stored the peer's salt and B.
C23_Request2NeedsChallenge ==
  (sres.op = "request2" /\ ~sres.crash /\ sres.data # <<>>) =>
     /\ sres.calls["request1"] > 0 /\ sctx.user # <<>>
     /\ sres.calls["response1"] > 0
     /\ sctx.salt_len > 0 /\ sctx.pkB_len > 0

\* C25: the authenticated flag of the SRP session is set only if
\* srp_user_process_challenge produced a proof in the session and the value
\* the peer sent equals the H_AMK computed with it; a session whose H_AMK is
\* as calloc left it is never authenticated.
C25_AuthenticatedNeedsProof ==
  (sctx.user # <<>> /\ sctx.user[1].authenticated = 1) =>
     /\ sres.calls["request2"] > 0 /\ sctx.M1 = "M"
     /\ sctx.user[1].H_AMK # ZeroDigest
     /\ sctx.M2 = DigestPrefix(SHA512_DIGEST_LENGTH, sctx.user[1].H_AMK)

\* C26: when srp_user_process_challenge yields no proof, pair_setup_request2
\* returns no M3 request and leaves an error message on the context.
C26_NoProofNoRequest ==
  (sres.op = "request2" /\ ~sres.crash /\ sctx.M1 = "NULL") =>
     /\ sres.ret = -1 /\ sres.data = <<>>
     /\ sctx.errmsg # ""

\* the bytes of n after len - bnum_num_bytes(n) zero bytes
PadTo(n, len) == Zeros(len - bnum_num_bytes(n)) \o bnum_bn2bin(n, bnum_num_bytes(n))

\* H(n1 | n2) as a number, both padded to the length of the longer one
PaddedHash(n1, n2) ==
  LET len == IF bnum_num_bytes(n1) > bnum_num_bytes(n2)
               THEN bnum_num_bytes(n1) ELSE bnum_num_bytes(n2)
  IN hash(PadTo(n1, len) \o PadTo(n2, len)).num

\* C30: for every exponent a and every B with 0 < B < N, whatever the byte
\* lengths of A and B, srp_user_process_challenge (as pair_setup_request2
\* calls it) produces a proof when u = H(PAD(A) | PAD(B)) is not 0.
C30_ProofForEveryLength ==
  (/\ sres.op = "request2" /\ ~sres.crash
   /\ 0 < sres.B /\ sres.B < NG_N
   /\ PaddedHash(bnum_bin2bn(sctx.pkA), sres.B) # 0)
    => (sctx.M1 = "M" /\ sctx.M1_len = SHA512_DIGEST_LENGTH)

\* C36: pair_setup_result returns 0 and a credential only on a context on
\* which pair_setup_request3 generated the long-term keypair and
\* pair_setup_response3 was called; otherwise it returns failure.
C36_ResultNeedsGeneratedKey ==
  (sres.op = "result" /\ sres.ret = 0) =>
     /\ sctx.public_key # Zeros(PUBLICKEYBYTES)
     /\ sres.calls["request3"] > 0 /\ sres.calls["response3"] > 0

----------------------------------------------------------------------------
(* X25519 (libsodium), ideal.  A point is the set of scalars the base      *)
(* point was multiplied by, so that a.(b.G) = b.(a.G); low marks a point   *)
(* of small order, such as the 32 zero bytes, for which crypto_scalarmult  *)
(* returns -1.  A scalar is its 32 bytes.                                  *)

\* const uint8_t basepoint[32] = {9}
Basepoint == [low |-> FALSE, exps |-> {}]
\* a 32-byte array of zeros read as a point
ZeroPoint == [low |-> TRUE, exps |-> {}]

\* crypto_scalarmult(q, n, p)
crypto_scalarmult(n, p) ==
  IF p.low THEN [ret |-> -1, q |-> ZeroPoint]
  ELSE [ret |-> 0, q |-> [low |-> FALSE, exps |-> p.exps \cup {n}]]

----------------------------------------------------------------------------
(* Pair-verify: struct pair_verify_context and its API *)

\* pair_verify_new(authorisation_key, device_id): null unless the key string
\* has 192 characters; the context calloc zeroed, with the device id and the
\* decoded keys copied in
pair_verify_new(authorisation_key, device_id) ==
  IF authorisation_key.null THEN <<>>
  ELSE IF Len(authorisation_key.str) # 2 * (PUBLICKEYBYTES + SECRETKEYBYTES) THEN <<>>
  ELSE IF DeviceIdRejected(device_id) THEN <<>>
  ELSE << [device_id |-> IF device_id.null THEN <<>> ELSE device_id.str,
           server_eph_public_key |-> ZeroPoint,
           server_public_key |-> Zeros(SECRETKEYBYTES),
           client_public_key |-> HexDecode(authorisation_key.str, 0, PUBLICKEYBYTES),
           client_private_key |-> HexDecode(authorisation_key.str, 2 * PUBLICKEYBYTES,
                                            SECRETKEYBYTES),
           client_eph_public_key |-> ZeroPoint,
           client_eph_private_key |-> Zeros(KEY_LENGTH),
           shared_secret |-> ZeroPoint,
           errmsg |-> ""] >>

\* pair_verify_request1: the public key of the ephemeral private key array
\* as it is in the context; nothing writes that array
pair_verify_request1(ctx) ==
  LET r == crypto_scalarmult(ctx.client_eph_private_key, Basepoint)
  IN IF r.ret < 0
       THEN [vctx |-> [ctx EXCEPT !.errmsg = "Verify request 1: Curve 25519 returned an error"],
             data |-> <<>>]
       ELSE [vctx |-> [ctx EXCEPT !.client_eph_public_key = r.q],
             data |-> << Tlv("State", pair_keys_map("PAIR_VERIFY_MSG01").state),
                         Tlv("PublicKey", [size |-> KEY_LENGTH, key |-> r.q]) >>]

\* pair_verify_request2: signs and seals M3 from whatever the context holds
pair_verify_request2(ctx, fail) ==
  LET info == create_and_sign_device_info(ctx.device_id, ctx.client_eph_public_key,
                                          ctx.server_eph_public_key,
                                          ctx.client_private_key)
      derived_key == hkdf_extract_expand(KEY_LENGTH, ctx.shared_secret, KEY_LENGTH,
                                         "PAIR_VERIFY_MSG03")
      enc == encrypt_chacha(info, derived_key.okm, <<>>,
                            HandshakeNonce("PAIR_VERIFY_MSG03"), fail)
  IN IF derived_key.ret < 0
       THEN [vctx |-> [ctx EXCEPT !.errmsg = "Verify request 2: hkdf error getting derived_key"],
             data |-> <<>>]
     ELSE IF enc.ret < 0
       THEN [vctx |-> [ctx EXCEPT !.errmsg = "Verify request 2: Could not encrypt"],
             data |-> <<>>]
     ELSE [vctx |-> ctx,
           data |-> << Tlv("State", pair_keys_map("PAIR_VERIFY_MSG03").state),
                       Tlv("EncryptedData", enc.cipher \o enc.tag) >>]

\* pair_verify_response1: stores the peer's ephemeral key and the shared
\* secret, opens M2 and parses what was in it; the identifier and the
\* signature in it are not looked at
pair_verify_response1(ctx, data) ==
  LET response == response_process(data)
      none == <<>>
  IN IF response.null
       THEN [vctx |-> [ctx EXCEPT !.errmsg = "Verify response 1: Could not parse TLV"],
             ret |-> -1, decrypted |-> none]
     ELSE IF ~tlv_has(response.items, "EncryptedData")
       THEN [vctx |-> [ctx EXCEPT !.errmsg = "Verify response 1: Missing encrypted_data"],
             ret |-> -1, decrypted |-> none]
     ELSE IF \/ ~tlv_has(response.items, "PublicKey")
             \/ tlv_get_value(response.items, "PublicKey").size # KEY_LENGTH
       THEN [vctx |-> [ctx EXCEPT !.errmsg = "Verify response 1: Missing or invalid public_key"],
             ret |-> -1, decrypted |-> none]
     ELSE
       LET encrypted_data == tlv_get_value(response.items, "EncryptedData")
           ctx1 == [ctx EXCEPT !.server_eph_public_key =
                                 tlv_get_value(response.items, "PublicKey").key]
           sm == crypto_scalarmult(ctx1.client_eph_private_key, ctx1.server_eph_public_key)
           ctx2 == [ctx1 EXCEPT !.shared_secret = sm.q]
           derived_key == hkdf_extract_expand(KEY_LENGTH, ctx2.shared_secret, KEY_LENGTH,
                                              "PAIR_VERIFY_MSG02")
       IN IF sm.ret < 0
            THEN [vctx |-> [ctx2 EXCEPT !.errmsg = "Verify response 1: Curve 25519 returned an error"],
                  ret |-> -1, decrypted |-> none]
          ELSE IF derived_key.ret < 0
            THEN [vctx |-> [ctx2 EXCEPT !.errmsg = "Verify response 1: hkdf error getting derived_key"],
                  ret |-> -1, decrypted |-> none]
          ELSE IF Len(encrypted_data) < AUTHTAG_LENGTH
            THEN [vctx |-> [ctx2 EXCEPT !.errmsg = "Verify response 1: Invalid encrypted data"],
                  ret |-> -1, decrypted |-> none]
          ELSE
            LET encrypted_len == Len(encrypted_data) - AUTHTAG_LENGTH
                tag == SubSeq(encrypted_data, encrypted_len + 1, Len(encrypted_data))
                dec == decrypt_chacha(SubSeq(encrypted_data, 1, encrypted_len),
                                      derived_key.okm, <<>>, tag,
                                      HandshakeNonce("PAIR_VERIFY_MSG02"))
            IN IF dec.ret < 0
                 THEN [vctx |-> [ctx2 EXCEPT !.errmsg = "Verify response 1: Decryption error"],
                       ret |-> -1, decrypted |-> none]
               ELSE IF response_process(dec.plain).null
                 THEN [vctx |-> [ctx2 EXCEPT !.errmsg = "Verify response 1: Could not parse decrypted TLV"],
                       ret |-> -1, decrypted |-> dec.plain]
               ELSE [vctx |-> ctx2, ret |-> 0, decrypted |-> dec.plain]

\* pair_verify_result: the address of the shared secret array
pair_verify_result(ctx) == [ret |-> 0, shared_secret |-> ctx.shared_secret]

----------------------------------------------------------------------------
(* Specification of pair-verify: one context made from a credential of     *)
(* pair-setup, its API called in any order with any of a set of peer       *)
(* messages.                                                               *)

\* the credentials: the keypairs pair-setup can have drawn, in hex
MaxCredential == 2
Credentials ==
  {[null |-> FALSE,
    str |-> HexString(crypto_sign_keypair(seed).public_key)
            \o HexString(crypto_sign_keypair(seed).private_key)] :
     seed \in 1..MaxCredential}

\* the accessory's ephemeral scalar
AccessoryScalar == RandomBytes(5)

\* the ephemeral public keys a peer sends: its own, one byte short, and a
\* point of small order
PeerEphKeys ==
  {[size |-> KEY_LENGTH, key |-> crypto_scalarmult(AccessoryScalar, Basepoint).q],
   [size |-> KEY_LENGTH - 1, key |-> crypto_scalarmult(AccessoryScalar, Basepoint).q],
   [size |-> KEY_LENGTH, key |-> ZeroPoint]}

\* the record an accessory signs in M2 of pair-verify
AccessoryVerifyInfo(eph, id, client_eph) == <<eph, id, client_eph>>

\* the sub-TLV of M2: identifier and signature by signer over the
\* accessory's ephemeral key, its identifier and the client's ephemeral key
VerifyM2Records(signer, eph, client_eph) ==
  << Tlv("Identifier", AccessoryId),
     Tlv("Signature",
         crypto_sign_detached(AccessoryVerifyInfo(eph, AccessoryId, client_eph),
                              crypto_sign_keypair(signer).private_key)) >>

\* the peer's sealing of an M2 payload under the key of a shared secret
SealVerifyM2(payload, secret) ==
  LET key == hkdf_extract_expand(KEY_LENGTH, secret, KEY_LENGTH, "PAIR_VERIFY_MSG02").okm
      enc == encrypt_chacha(payload, key, <<>>, HandshakeNonce("PAIR_VERIFY_MSG02"), FALSE)
  IN enc.cipher \o enc.tag

\* a payload sealed under the key and the nonce of the client's M3
SealAsM3(payload, secret) ==
  LET key == hkdf_extract_expand(KEY_LENGTH, secret, KEY_LENGTH, "PAIR_VERIFY_MSG03").okm
      enc == encrypt_chacha(payload, key, <<>>, Zeros(4) \o PVMsg03, FALSE)
  IN enc.cipher \o enc.tag

\* the secrets a peer seals with: the one it shares with the public key the
\* client shows, or another
PeerSecrets(ctx) ==
  {crypto_scalarmult(AccessoryScalar, crypto_scalarmult(ctx.client_eph_private_key, Basepoint).q).q,
   crypto_scalarmult(AccessoryScalar, Basepoint).q}

\* the answers with ephemeral key k and a sealed payload: signed by the
\* accessory, signed by another, no TLV
SealedVerifyM2(ctx, k) ==
  {<< Tlv("State", 2), Tlv("PublicKey", k), Tlv("EncryptedData", SealVerifyM2(p, s)) >> :
     p \in {VerifyM2Records(AccessorySeed, k.key, ctx.client_eph_public_key),
            VerifyM2Records(OtherSeed, k.key, ctx.client_eph_public_key),
            <<Garbage>>},
     s \in PeerSecrets(ctx)}
  \cup {<< Tlv("State", 2), Tlv("PublicKey", k),
            Tlv("EncryptedData",
                SealAsM3(VerifyM2Records(AccessorySeed, k.key, ctx.client_eph_public_key), s)) >> :
          s \in PeerSecrets(ctx)}

\* what a peer answers to M1 of pair-verify
PeerVerifyM2(ctx) ==
  {<<Garbage>>, << Tlv("State", 2), Tlv("Error", "Authentication") >>,
   << Tlv("State", 2) >>}
  \cup {<< Tlv("State", 2), Tlv("EncryptedData", <<Garbage>>) >>}
  \cup {<< Tlv("State", 2), Tlv("PublicKey", k), Tlv("EncryptedData", <<Garbage>>) >> :
          k \in PeerEphKeys}
  \cup UNION {SealedVerifyM2(ctx, k) : k \in PeerEphKeys}

\* the signature of an opened M2 payload verifies under the accessory's
\* long-term public key over the accessory's info
VerifyM2SignatureVerifies(payload, ctx) ==
  /\ tlv_parse(payload) = 0
  /\ tlv_has(payload, "Identifier") /\ tlv_has(payload, "Signature")
  /\ crypto_sign_verify_detached(
       tlv_get_value(payload, "Signature"),
       AccessoryVerifyInfo(ctx.server_eph_public_key,
                           tlv_get_value(payload, "Identifier"),
                           ctx.client_eph_public_key),
       crypto_sign_keypair(AccessorySeed).public_key)

\* the outcome of the last call and what is remembered of earlier ones:
\* requested1: pair_verify_request1 has returned M1; r1failed:
\* pair_verify_response1 has returned -1; opened: the payload the last
\* pair_verify_response1 opened; secret: what pair_verify_result handed out
NoVerifyCall ==
  [op |-> "new", ret |-> 0, data |-> <<>>, requested1 |-> FALSE,
   r1failed |-> FALSE, r1ok |-> FALSE, opened |-> <<>>, secret |-> ZeroPoint,
   peerError |-> "none", input |-> <<>>]

VerifyInit ==
  /\ KeysIdle /\ CipherIdle /\ SetupIdle
  /\ \E key \in Credentials, device_id \in DeviceIds :
       vctx = pair_verify_new(key, device_id)[1]
  /\ vres = NoVerifyCall

\* there is a pair-verify context
VerifyLive == vres # <<>>

VerifyOutcome(op, ret, data) ==
  [vres EXCEPT !.op = op, !.ret = ret, !.data = data, !.opened = <<>>,
               !.secret = ZeroPoint, !.peerError = "none", !.input = <<>>]

VerifyRequest1 ==
  /\ VerifyLive
  /\ LET r == pair_verify_request1(vctx)
     IN /\ vctx' = r.vctx
        /\ vres' = [VerifyOutcome("request1", IF r.data = <<>> THEN -1 ELSE 0, r.data)
                      EXCEPT !.requested1 = vres.requested1 \/ r.data # <<>>]
  /\ UNCHANGED <<keyVars, cipherVars, setupVars>>

VerifyResponse1 ==
  /\ VerifyLive
  /\ \E data \in PeerVerifyM2(vctx) :
       LET r == pair_verify_response1(vctx, data)
       IN /\ vctx' = r.vctx
          /\ vres' = [VerifyOutcome("response1", r.ret, <<>>)
                        EXCEPT !.opened = r.decrypted,
                               !.r1failed = vres.r1failed \/ r.ret < 0,
                               !.r1ok = vres.r1ok \/ r.ret = 0,
                               !.peerError = PeerErrorOf(data),
                               !.input = data]
  /\ UNCHANGED <<keyVars, cipherVars, setupVars>>

VerifyRequest2 ==
  /\ VerifyLive
  /\ \E fail \in BOOLEAN :
       LET r == pair_verify_request2(vctx, fail)
       IN /\ vctx' = r.vctx
          /\ vres' = VerifyOutcome("request2", IF r.data = <<>> THEN -1 ELSE 0, r.data)
  /\ UNCHANGED <<keyVars, cipherVars, setupVars>>

VerifyResult ==
  /\ VerifyLive
  /\ LET r == pair_verify_result(vctx)
     IN /\ vctx' = vctx
        /\ vres' = [VerifyOutcome("result", r.ret, <<>>) EXCEPT !.secret = r.shared_secret]
  /\ UNCHANGED <<keyVars, cipherVars, setupVars>>

VerifyNext == VerifyRequest1 \/ VerifyResponse1 \/ VerifyRequest2 \/ VerifyResult

SpecVerify == VerifyInit /\ [][VerifyNext]_vars

\* C4: pair_verify_response1 returns success only for an M2 whose peer
\* signature over the signed device-info record verifies (here: answering
\* an M1 that pair_verify_request1 built).
C4_M2SignatureChecked ==
  (vres.op = "response1" /\ vres.ret = 0 /\ vres.requested1)
     => VerifyM2SignatureVerifies(vres.opened, vctx)

\* C7: the ephemeral private key from which pair_verify_request1 computes
\* the public key it emits was drawn from the random source for that
\* context: it is not the array as calloc left it, the same in every context.
C7_FreshEphemeralKey ==
  (vres.op = "request1" /\ vres.ret = 0) =>
     /\ vctx.client_eph_private_key # Zeros(KEY_LENGTH)
     /\ vctx.client_eph_public_key
          # crypto_scalarmult(Zeros(KEY_LENGTH), Basepoint).q

\* C22: pair_verify_result hands out the shared secret only once
\* pair_verify_response1 has opened M2 successfully on the context (and the
\* peer's M4 has been consumed); before that it hands out no secret.
C22_ResultNeedsOpenedM2 ==
  (vres.op = "result" /\ vres.ret = 0) => vres.r1ok

\* C8: once pair_verify_response1 has returned failure on a context, no
\* later pair_verify_request2 call on it returns an M3 request.
C8_FailureIsTerminal ==
  (vres.op = "request2" /\ vres.ret = 0) => ~vres.r1failed

----------------------------------------------------------------------------
(* Both handshakes: a pair-setup context or a pair-verify context, its API *)
(* called in any order.                                                    *)

HandshakeInit == SetupInit \/ VerifyInit

HandshakeNext == SetupNext \/ VerifyNext

SpecHandshake == HandshakeInit /\ [][HandshakeNext]_vars

\* the byte string secret is part of the byte string value
Exposes(value, secret) ==
  /\ Len(secret) > 0
  /\ \E off \in 0..(Len(value) - Len(secret)) :
       SubSeq(value, off + 1, off + Len(secret)) = secret

\* the secret byte strings of a pair-setup context: the PIN, the SRP
\* exponent a, the seed half of the long-term private key
SetupSecretBytes(ctx) ==
  {ctx.pin, SubSeq(ctx.private_key, 1, PUBLICKEYBYTES)}
  \cup (IF ctx.user = <<>> THEN {}
        ELSE {bnum_bn2bin(ctx.user[1].a, bnum_num_bytes(ctx.user[1].a))})

\* the secret byte strings of a pair-verify context: the seed half of the
\* long-term private key and the ephemeral private key
VerifySecretBytes(ctx) ==
  {SubSeq(ctx.client_private_key, 1, PUBLICKEYBYTES), ctx.client_eph_private_key}

\* value is an AEAD ciphertext and its tag under key and the nonce of stage,
\* and the records sealed in it are an identifier, a signature and (for
\* pair-setup) a public key, none of which holds one of the secrets
SealedField(value, key, stage, secrets) ==
  /\ Len(value) > AUTHTAG_LENGTH
  /\ LET n == Len(value) - AUTHTAG_LENGTH
         dec == decrypt_chacha(SubSeq(value, 1, n), key, <<>>,
                               SubSeq(value, n + 1, Len(value)), HandshakeNonce(stage))
     IN /\ dec.ret = 0
        /\ \A i \in DOMAIN dec.plain :
             LET t == dec.plain[i]
             IN /\ t.type \in {"Identifier", "Signature", "PublicKey"}
                /\ t.type \in {"Identifier", "PublicKey"} =>
                      \A sec \in secrets : ~Exposes(t.value, sec)

\* a field of a pair-setup request is a marker, the public value A, the
\* proof M, or a sealed payload
SetupFieldClear(t, ctx) ==
  LET usr == ctx.user[1]
  IN CASE t.type \in {"State", "Method"} -> t.value \in 0..6
       [] t.type = "PublicKey" ->
            /\ t.value = bnum_bn2bin(bnum_modexp(NG_g, usr.a, NG_N),
                                     bnum_num_bytes(bnum_modexp(NG_g, usr.a, NG_N)))
            /\ \A sec \in SetupSecretBytes(ctx) : ~Exposes(t.value, sec)
       [] t.type = "Proof" ->
            t.value # <<>> => (t.value = <<usr.M>> /\ t.value # <<usr.session_key>>)
       [] t.type = "EncryptedData" ->
            SealedField(t.value,
                        hkdf_extract_expand(KEY_LENGTH, usr.session_key,
                                            SHA512_DIGEST_LENGTH, "PAIR_SETUP_MSG05").okm,
                        "PAIR_SETUP_MSG05", SetupSecretBytes(ctx))
       [] OTHER -> FALSE

\* a field of a pair-verify request is a marker, the ephemeral public key,
\* or a sealed payload
VerifyFieldClear(t, ctx) ==
  CASE t.type = "State" -> t.value \in 0..6
    [] t.type = "PublicKey" ->
         /\ t.value.key = crypto_scalarmult(ctx.client_eph_private_key, Basepoint).q
         /\ t.value.key # ctx.shared_secret
    [] t.type = "EncryptedData" ->
         SealedField(t.value,
                     hkdf_extract_expand(KEY_LENGTH, ctx.shared_secret, KEY_LENGTH,
                                         "PAIR_VERIFY_MSG03").okm,
                     "PAIR_VERIFY_MSG03", VerifySecretBytes(ctx))
    [] OTHER -> FALSE

\* the last call returned a request buffer
SetupRequested ==
  sres # <<>> /\ sres.op \in {"request1", "request2", "request3"}
  /\ ~sres.crash /\ sres.data # <<>>
VerifyRequested ==
  vres # <<>> /\ vres.op \in {"request1", "request2"} /\ vres.data # <<>>

\* C15: no request buffer a pair-setup or pair-verify request function
\* returns holds secret key material in the clear (the PIN, the exponent a,
\* the session key, a derived key, a long-term or ephemeral private key, the
\* shared secret): every field is a state or method marker, a public value,
\* a proof, or AEAD ciphertext and tag sealing an identifier, a signature
\* and a public key.
C15_NoSecretOnWire ==
  /\ SetupRequested =>
        \A i \in DOMAIN sres.data : SetupFieldClear(sres.data[i], sctx)
  /\ VerifyRequested =>
        \A i \in DOMAIN vres.data : VerifyFieldClear(vres.data[i], vctx)

\* C15 witness: pair_setup_request3 has returned an M5 request after a
\* challenge was processed, the session key and a long-term key in the
\* context.
C15_Witness ==
  /\ SetupRequested /\ sres.op = "request3"
  /\ sctx.user[1].session_key_len = SHA512_DIGEST_LENGTH
  /\ sctx.private_key # Zeros(SECRETKEYBYTES)

\* the message response_process has for an error code
PeerErrorMessage(code) == response_process(<< Tlv("Error", code) >>).errmsg

\* C16: when the peer's response carries a TLV error code, the response
\* function returns -1 and the message on the context is the one mapped from
\* that code.
C16_PeerErrorReported ==
  /\ (sres # <<>> /\ sres.peerError # "none") =>
        (sres.ret = -1 /\ sctx.errmsg = PeerErrorMessage(sres.peerError))
  /\ (vres # <<>> /\ vres.peerError # "none") =>
        (vres.ret = -1 /\ vctx.errmsg = PeerErrorMessage(vres.peerError))

\* what opening value (ciphertext and tag) under key and the nonce of 4 zero
\* bytes and label gives
OpenUnder(value, key, label) ==
  decrypt_chacha(SubSeq(value, 1, Len(value) - AUTHTAG_LENGTH), key, <<>>,
                 SubSeq(value, Len(value) - AUTHTAG_LENGTH + 1, Len(value)),
                 Zeros(4) \o label)

\* value opens under key and that nonce
OpensUnder(value, key, label) ==
  Len(value) >= AUTHTAG_LENGTH /\ OpenUnder(value, key, label).ret = 0

\* the 32-byte key of stage from the 64-byte session key of pair-setup
SetupStageKey(ctx, stage) ==
  hkdf_extract_expand(KEY_LENGTH, ctx.user[1].session_key, SHA512_DIGEST_LENGTH, stage).okm

\* the 32-byte key of stage from the shared secret of pair-verify
VerifyStageKey(ctx, stage) ==
  hkdf_extract_expand(KEY_LENGTH, ctx.shared_secret, KEY_LENGTH, stage).okm

\* the last call was a request of the given stage and returned a buffer
SetupSealed == sres # <<>> /\ sres.op = "request3" /\ ~sres.crash /\ sres.data # <<>>
VerifySealed == vres # <<>> /\ vres.op = "request2" /\ vres.data # <<>>
\* the last call was a response call that opened the peer's message
SetupOpened == sres # <<>> /\ sres.op = "response3" /\ ~sres.crash /\ sres.ret = 0
VerifyOpened == vres # <<>> /\ vres.op = "response1" /\ vres.ret = 0

\* C31: every handshake seal or open uses the key and the nonce of its own
\* message: M5 is sealed under the key of PAIR_SETUP_MSG05 and the label
\* PS-Msg05, M6 opened under PAIR_SETUP_MSG06 and PS-Msg06, verify M2 opened
\* under PAIR_VERIFY_MSG02 and PV-Msg02, verify M3 sealed under
\* PAIR_VERIFY_MSG03 and PV-Msg03; the nonce is 4 zero bytes followed by the
\* 8-byte label, and the state marker sent is that of the stage.
C31_OwnKeyAndNonce ==
  /\ SetupSealed =>
        /\ tlv_get_value(sres.data, "State") = 5
        /\ OpensUnder(tlv_get_value(sres.data, "EncryptedData"),
                      SetupStageKey(sctx, "PAIR_SETUP_MSG05"), PSMsg05)
        /\ ~OpensUnder(tlv_get_value(sres.data, "EncryptedData"),
                       SetupStageKey(sctx, "PAIR_SETUP_MSG05"), PSMsg06)
  /\ SetupOpened =>
        /\ OpensUnder(tlv_get_value(sres.input, "EncryptedData"),
                      SetupStageKey(sctx, "PAIR_SETUP_MSG06"), PSMsg06)
        /\ sres.opened = OpenUnder(tlv_get_value(sres.input, "EncryptedData"),
                                   SetupStageKey(sctx, "PAIR_SETUP_MSG06"), PSMsg06).plain
  /\ VerifyOpened =>
        /\ OpensUnder(tlv_get_value(vres.input, "EncryptedData"),
                      VerifyStageKey(vctx, "PAIR_VERIFY_MSG02"), PVMsg02)
        /\ vres.opened = OpenUnder(tlv_get_value(vres.input, "EncryptedData"),
                                   VerifyStageKey(vctx, "PAIR_VERIFY_MSG02"), PVMsg02).plain
  /\ VerifySealed =>
        /\ tlv_get_value(vres.data, "State") = 3
        /\ OpensUnder(tlv_get_value(vres.data, "EncryptedData"),
                      VerifyStageKey(vctx, "PAIR_VERIFY_MSG03"), PVMsg03)
        /\ ~OpensUnder(tlv_get_value(vres.data, "EncryptedData"),
                       VerifyStageKey(vctx, "PAIR_VERIFY_MSG03"), PVMsg02)
  /\ Len(Zeros(4) \o PSMsg05) = NONCE_LENGTH /\ Len(PVMsg03) = NONCE_LENGTH - 4

\* C31 witness: on a context that has sent M5 under a processed challenge,
\* pair_setup_response3 has opened an M6 sealed under the M6 nonce.
C31_Witness ==
  /\ SetupOpened /\ sres.calls["request3"] > 0 /\ sres.r2ok
  /\ sctx.user[1].session_key_len = SHA512_DIGEST_LENGTH
  /\ OpensUnder(tlv_get_value(sres.input, "EncryptedData"),
                SetupStageKey(sctx, "PAIR_SETUP_MSG06"), PSMsg06)
  /\ sres.opened # <<>>

\* C38: the signed device-info records hold the prescribed fields in the
\* prescribed order: in M5 of pair-setup the signature is over (the signing
\* sub-key derived for stage sign, the device id, the own long-term public
\* key) and made with the long-term private key just generated; in M3 of
\* pair-verify it is over (the own ephemeral public key, the device id, the
\* peer's ephemeral public key as stored from M2) and made with the
\* long-term private key of the credential; the sealed payload carries the
\* identifier and the signature (and in M5 the public key after them).
C38_SignedDeviceInfo ==
  /\ SetupSealed =>
        LET usr == sctx.user[1]
            device_x == hkdf_extract_expand(KEY_LENGTH, usr.session_key,
                                            usr.session_key_len, "PAIR_SETUP_SIGN").okm
            payload == OpenUnder(tlv_get_value(sres.data, "EncryptedData"),
                                 SetupStageKey(sctx, "PAIR_SETUP_MSG05"), PSMsg05).plain
        IN /\ \E seed \in 1..MaxKeySeed :
                /\ sctx.public_key = crypto_sign_keypair(seed).public_key
                /\ sctx.private_key = crypto_sign_keypair(seed).private_key
           /\ payload =
                << Tlv("Identifier", sctx.device_id),
                   Tlv("Signature",
                       crypto_sign_detached(<<device_x, sctx.device_id, sctx.public_key>>,
                                            sctx.private_key)),
                   Tlv("PublicKey", sctx.public_key) >>
           /\ crypto_sign_verify_detached(tlv_get_value(payload, "Signature"),
                                          <<device_x, sctx.device_id, sctx.public_key>>,
                                          sctx.public_key)
  /\ VerifySealed =>
        LET payload == OpenUnder(tlv_get_value(vres.data, "EncryptedData"),
                                 VerifyStageKey(vctx, "PAIR_VERIFY_MSG03"), PVMsg03).plain
            info == <<vctx.client_eph_public_key, vctx.device_id,
                      vctx.server_eph_public_key>>
        IN /\ \E seed \in 1..MaxCredential :
                /\ vctx.client_public_key = crypto_sign_keypair(seed).public_key
                /\ vctx.client_private_key = crypto_sign_keypair(seed).private_key
           /\ payload =
                << Tlv("Identifier", vctx.device_id),
                   Tlv("Signature", crypto_sign_detached(info, vctx.client_private_key)) >>
           /\ crypto_sign_verify_detached(tlv_get_value(payload, "Signature"), info,
                                          vctx.client_public_key)
           /\ vres.r1ok =>
                 vctx.server_eph_public_key \in {k.key : k \in PeerEphKeys}

\* C38 witness: pair_verify_request2 has sealed an M3 after M1 was sent and
\* an M2 opened, with the two ephemeral keys and the secret in the context.
C38_Witness ==
  /\ VerifySealed /\ vres.r1ok /\ vres.requested1
  /\ vctx.server_eph_public_key = crypto_scalarmult(AccessoryScalar, Basepoint).q
  /\ vctx.client_eph_public_key # vctx.server_eph_public_key
  /\ vctx.shared_secret # ZeroPoint

----------------------------------------------------------------------------
(* Construction: pair_setup_new and pair_verify_new called with any        *)
(* arguments, a pair-setup context taken to its result, and the credential *)
(* it hands out given to pair_verify_new.  sctx and vctx are the pointers  *)
(* the constructors returned last (<<>>: null), sres and vres the          *)
(* arguments and the outcome of the last call.                             *)

\* a string of n characters from c on
Str(n, c) == [null |-> FALSE, str |-> [i \in 1..n |-> c + (i % 6)]]
NullStr == [null |-> TRUE, str |-> <<>>]

\* PINs: none, 3, 4 and 5 digits
PinArgs == {NullStr} \cup {Str(n, 49) : n \in {3, 4, 5}}
\* device ids: none, 15, 16 and 17 characters
IdArgs == {NullStr} \cup {Str(n, 65) : n \in {15, 16, 17}}

\* str with the characters c1 c2 in its first two places
Spoiled(k, c1, c2) ==
  [null |-> FALSE, str |-> <<c1, c2>> \o SubSeq(k.str, 3, Len(k.str))]

\* credentials: none, the hex of a keypair, and that of the first keypair
\* one character short, one long, and with its first byte written "g1" or
\* "-1"
KeyArgs ==
  LET k == [null |-> FALSE,
            str |-> HexString(crypto_sign_keypair(1).public_key)
                    \o HexString(crypto_sign_keypair(1).private_key)]
  IN {NullStr} \cup Credentials
     \cup {[null |-> FALSE, str |-> SubSeq(k.str, 2, Len(k.str))],
           [null |-> FALSE, str |-> k.str \o <<48>>],
           Spoiled(k, 103, 49), Spoiled(k, 45, 49)}

ConstructInit ==
  /\ KeysIdle /\ CipherIdle /\ SetupIdle /\ VerifyIdle

\* the process has not been stopped by a fault
Running == IF sres = <<>> THEN TRUE ELSE ~sres.crash

ConstructSetup ==
  /\ Running
  /\ \E pin \in PinArgs, device_id \in IdArgs :
       /\ sctx' = pair_setup_new(pin, device_id)
       /\ sres' = [op |-> "new", pin |-> pin, device_id |-> device_id,
                   ret |-> 0, crash |-> FALSE]
  /\ UNCHANGED <<keyVars, cipherVars, verifyVars>>

ConstructRequest1 ==
  /\ Running /\ sctx # <<>>
  /\ LET r == pair_setup_request1(sctx[1])
     IN /\ sctx' = <<r.sctx>>
        /\ sres' = [sres EXCEPT !.op = "request1", !.ret = RequestRet(r),
                                !.crash = r.crash]
  /\ UNCHANGED <<keyVars, cipherVars, verifyVars>>

ConstructRequest3 ==
  /\ Running /\ sctx # <<>>
  /\ \E seed \in 1..MaxKeySeed, fail \in BOOLEAN :
       LET r == pair_setup_request3(sctx[1], seed, fail)
       IN /\ sctx' = <<r.sctx>>
          /\ sres' = [sres EXCEPT !.op = "request3", !.ret = RequestRet(r),
                                  !.crash = r.crash]
  /\ UNCHANGED <<keyVars, cipherVars, verifyVars>>

ConstructResult ==
  /\ Running /\ sctx # <<>>
  /\ LET r == pair_setup_result(sctx[1])
     IN /\ sctx' = <<r.sctx>>
        /\ sres' = [sres EXCEPT !.op = "result", !.ret = r.ret, !.crash = r.crash]
  /\ UNCHANGED <<keyVars, cipherVars, verifyVars>>

\* pair_verify_new with a credential of KeyArgs or the one pair_setup_result
\* handed out
ConstructVerify ==
  /\ Running
  /\ \E key \in KeyArgs \cup (IF sctx # <<>> /\ sctx[1].auth_key # <<>>
                               THEN {[null |-> FALSE, str |-> sctx[1].auth_key]}
                               ELSE {}),
        device_id \in IdArgs :
       /\ vctx' = pair_verify_new(key, device_id)
       /\ vres' = [op |-> "new", key |-> key, device_id |-> device_id]
  /\ UNCHANGED <<keyVars, cipherVars, setupVars>>

ConstructNext ==
  \/ ConstructSetup \/ ConstructRequest1 \/ ConstructRequest3 \/ ConstructResult
  \/ ConstructVerify

SpecConstruct == ConstructInit /\ [][ConstructNext]_vars

\* the last pair-setup call was pair_setup_result, and the last
\* pair_verify_new call was given the string it handed out
ResultGiven ==
  /\ sres # <<>> /\ sres.op = "result" /\ sres.ret = 0
  /\ vres # <<>> /\ vres.key = [null |-> FALSE, str |-> sctx[1].auth_key]
  /\ ~DeviceIdRejected(vres.device_id)

\* C18: the string pair_setup_result returns for the long-term keypair of a
\* pair-setup context is accepted by pair_verify_new and decodes to the
\* same 32-byte public key and 64-byte private key.
C18_CredentialRoundTrip ==
  ResultGiven =>
     /\ vctx # <<>>
     /\ Len(vctx[1].client_public_key) = PUBLICKEYBYTES
     /\ Len(vctx[1].client_private_key) = SECRETKEYBYTES
     /\ vctx[1].client_public_key = sctx[1].public_key
     /\ vctx[1].client_private_key = sctx[1].private_key

\* C18 witness: the credential of a keypair that crypto_sign_keypair drew has
\* made the round trip.
C18_Witness ==
  /\ ResultGiven /\ vctx # <<>>
  /\ sctx[1].private_key # Zeros(SECRETKEYBYTES)
  /\ vctx[1].client_private_key = sctx[1].private_key

\* the last call of a constructor
SetupConstructed == sres # <<>> /\ sres.op = "new"
VerifyConstructed == vres # <<>> /\ vres.op = "new"

PinShort(pin) == pin.null \/ Len(pin.str) < 4
IdNot16(device_id) == device_id.null \/ Len(device_id.str) # 16
KeyLengthRight(key) ==
  ~key.null /\ Len(key.str) = 2 * (PUBLICKEYBYTES + SECRETKEYBYTES)

\* C19 (as claimed): over a PIN of any length or none and a device id of any
\* length or none, the constructors return no context whenever the PIN is
\* shorter than 4 characters or the device id is not exactly 16 characters.
C19_FailsUnless16 ==
  /\ (SetupConstructed /\ (PinShort(sres.pin) \/ IdNot16(sres.device_id)))
        => sctx = <<>>
  /\ (VerifyConstructed /\ IdNot16(vres.device_id)) => vctx = <<>>

\* C19 (amended): the constructors return no context whenever the PIN is
\* missing or shorter than 4 characters or a device id is given that is not
\* exactly 16 characters; with no device id given (a null pointer) and the
\* other argument good they return a context whose device id is empty.
C19_FailsUnlessNullOr16 ==
  /\ SetupConstructed =>
        /\ (PinShort(sres.pin)
              \/ (~sres.device_id.null /\ Len(sres.device_id.str) # 16))
              => sctx = <<>>
        /\ (~PinShort(sres.pin) /\ sres.device_id.null)
              => (sctx # <<>> /\ sctx[1].device_id = <<>>)
  /\ VerifyConstructed =>
        /\ (~vres.device_id.null /\ Len(vres.device_id.str) # 16) => vctx = <<>>
        /\ (KeyLengthRight(vres.key) /\ vres.device_id.null)
              => (vctx # <<>> /\ vctx[1].device_id = <<>>)

\* C19 witness: pair_setup_new was given a PIN of 4 digits and a device id
\* of 17 characters and returned no context.
C19_Witness ==
  /\ SetupConstructed /\ Len(sres.pin.str) = 4
  /\ Len(sres.device_id.str) = 17 /\ sctx = <<>>

\* a credential string of exactly 192 hexadecimal digits
WellFormedCredential(key) ==
  /\ KeyLengthRight(key)
  /\ \A i \in DOMAIN key.str : HexDigitVal(key.str[i]) >= 0

\* C20: pair_verify_new returns no context for a credential string that is
\* not exactly 192 hexadecimal digits: of another length, or of that length
\* with a character that is no hexadecimal digit.
C20_MalformedCredentialRejected ==
  (VerifyConstructed /\ ~WellFormedCredential(vres.key)) => vctx = <<>>

----------------------------------------------------------------------------
(* SRP exchange runs: one pair-setup context on which the four calls of    *)
(* the SRP exchange are made in any order, each any number of times, with  *)
(* peer messages whose records are missing or of any size.                 *)

\* the calls made on the context
MaxSteps == 4

\* the exponents b an accessory draws
ServerExponents == {2, 11}

\* the verifier an accessory holds for a salt and the PIN: v = g^x mod N
SrpVerifier(bytes_s, password) ==
  ModExpNat(NG_g, calculate_x(bnum_bin2bn(bytes_s), USERNAME, password), NG_N)

\* the B of an accessory that knows the PIN: (k*v + g^b) mod N
ServerB(bytes_s, password, b) ==
  (H_nn_pad(NG_N, NG_g) * SrpVerifier(bytes_s, password)
     + ModExpNat(NG_g, b, NG_N)) % NG_N

\* the secret that accessory computes from the client's A: (A * v^u)^b mod N
ServerS(A, v, u, b) == ModExpNat((A * ModExpNat(v, u, NG_N)) % NG_N, b, NG_N)

\* what a peer answers to M1: no TLV, an error code, a message without B,
\* one without the salt, messages with both, and the messages of an
\* accessory that knows the PIN
SrpM2 ==
  {<< Tlv("State", 2),
      Tlv("PublicKey", bnum_bn2bin(ServerB(salt, pin.str, b),
                                   bnum_num_bytes(ServerB(salt, pin.str, b)))),
      Tlv("Salt", salt) >> : salt \in PeerSalts, pin \in Pins, b \in ServerExponents}
  \cup
  {<<Garbage>>, << Tlv("State", 2), Tlv("Error", "Authentication") >>,
   << Tlv("State", 2), Tlv("Salt", <<9, 4>>) >>,
   << Tlv("State", 2), Tlv("PublicKey", <<77>>) >>,
   << Tlv("State", 2), Tlv("PublicKey", <<77>>), Tlv("Salt", <<9, 4>>) >>,
   << Tlv("State", 2), Tlv("PublicKey", bnum_bn2bin(20000, 2)), Tlv("Salt", <<3>>) >>}

\* the sizes of the Proof record a peer sends: half a digest, a digest, one
\* byte more
ProofSizes == {SHA512_DIGEST_LENGTH \div 2, SHA512_DIGEST_LENGTH, SHA512_DIGEST_LENGTH + 1}

\* what a peer answers to M3: no proof, or a proof of some size that starts
\* like the H_AMK of the session or like another digest
SrpM4(ctx) ==
  {<< Tlv("State", 4) >>}
  \cup {<< Tlv("State", 4), Tlv("Proof", DigestPrefix(n, p)) >> :
          n \in ProofSizes,
          p \in {hash(<<0>>)} \cup (IF ctx.user = <<>> THEN {} ELSE {ctx.user[1].H_AMK})}

\* the outcome of the last call: input: the peer message it was given;
\* salt0, pkB0: the salt and B of the context before it; read: the bytes
\* pair_setup_response2 read at M2; steps: the calls made so far
NoSrpCall ==
  [op |-> "new", ret |-> 0, crash |-> FALSE, data |-> <<>>, input |-> <<>>,
   salt0 |-> <<>>, pkB0 |-> <<>>, read |-> 0, steps |-> 0]

SrpInit ==
  /\ KeysIdle /\ CipherIdle /\ VerifyIdle
  /\ \E pin \in Pins, device_id \in DeviceIds : sctx = pair_setup_new(pin, device_id)[1]
  /\ sres = NoSrpCall

\* the process runs and the caller makes one more call
SrpLive == ~sres.crash /\ sres.steps < MaxSteps

SrpOutcome(op, ret, crash, data, input, read) ==
  [op |-> op, ret |-> ret, crash |-> crash, data |-> data, input |-> input,
   salt0 |-> sctx.salt, pkB0 |-> sctx.pkB, read |-> read, steps |-> sres.steps + 1]

SrpRequest1 ==
  /\ SrpLive
  /\ LET r == pair_setup_request1(sctx)
     IN /\ sctx' = r.sctx
        /\ sres' = SrpOutcome("request1", RequestRet(r), r.crash, r.data, <<>>, 0)
  /\ UNCHANGED <<keyVars, cipherVars, verifyVars>>

SrpResponse1 ==
  /\ SrpLive
  /\ \E data \in SrpM2 :
       LET r == pair_setup_response1(sctx, data)
       IN /\ sctx' = r.sctx
          /\ sres' = SrpOutcome("response1", r.ret, r.crash, <<>>, data, 0)
  /\ UNCHANGED <<keyVars, cipherVars, verifyVars>>

SrpRequest2 ==
  /\ SrpLive
  /\ \E a \in SrpExponents :
       LET r == pair_setup_request2(sctx, a)
       IN /\ sctx' = r.sctx
          /\ sres' = SrpOutcome("request2", RequestRet(r), r.crash, r.data, <<>>, 0)
  /\ UNCHANGED <<keyVars, cipherVars, verifyVars>>

SrpResponse2 ==
  /\ SrpLive
  /\ \E data \in SrpM4(sctx), stray \in BOOLEAN :
       LET r == pair_setup_response2(sctx, data, stray)
       IN /\ sctx' = r.sctx
          /\ sres' = SrpOutcome("response2", r.ret, r.crash, <<>>, data, r.read)
  /\ UNCHANGED <<keyVars, cipherVars, verifyVars>>

SrpNext == SrpRequest1 \/ SrpResponse1 \/ SrpRequest2 \/ SrpResponse2

SpecSrp == SrpInit /\ [][SrpNext]_vars

\* the message does not parse, carries an error code, or lacks the salt or B
BadM2(data) ==
  \/ tlv_parse(data) < 0
  \/ tlv_has(data, "Error")
  \/ ~tlv_has(data, "Salt")
  \/ ~tlv_has(data, "PublicKey")

\* C21: pair_setup_response1 returns -1 if the response does not parse,
\* carries a peer error code, or lacks the salt or B, and then leaves the
\* salt and B stored in the context as they were; otherwise it returns 0 and
\* stores the salt and B of the response.
C21_Response1Contract ==
  sres.op = "response1" =>
     IF BadM2(sres.input)
       THEN /\ sres.ret = -1
            /\ sctx.salt = sres.salt0 /\ sctx.salt_len = Len(sres.salt0)
            /\ sctx.pkB = sres.pkB0 /\ sctx.pkB_len = Len(sres.pkB0)
       ELSE /\ sres.ret = 0
            /\ sctx.salt = tlv_get_value(sres.input, "Salt")
            /\ sctx.salt_len = Len(sctx.salt)
            /\ sctx.pkB = tlv_get_value(sres.input, "PublicKey")
            /\ sctx.pkB_len = Len(sctx.pkB)

\* C21 witness: a response with B but no salt was turned down on a context
\* that held another B and a salt from an earlier response, and holds them
\* still.
C21_Witness ==
  /\ sres.op = "response1" /\ sres.ret = -1
  /\ tlv_parse(sres.input) = 0 /\ tlv_has(sres.input, "PublicKey")
  /\ ~tlv_has(sres.input, "Salt")
  /\ sres.pkB0 = bnum_bn2bin(20000, 2) /\ sres.salt0 = <<3>>
  /\ sctx.pkB = sres.pkB0 /\ sctx.salt = sres.salt0

\* C29: pair_setup_response2 turns down a Proof record whose size is not the
\* 64 bytes of a digest, and srp_user_verify_session reads no byte beyond
\* the M2_len bytes of the M2 buffer.
C29_ProofComparedWithinBuffer ==
  (sres.op = "response2" /\ ~sres.crash /\ sres.read > 0) =>
     /\ sres.read <= sctx.M2_len
     /\ sctx.M2_len # SHA512_DIGEST_LENGTH => sres.ret = -1

\* C37: for every accepted challenge the secret srp_user_process_challenge
\* stores is S = (B - k*g^x)^(a + u*x) mod N, a value in [0, N), the base
\* reduced modulo N also when B is smaller than k*g^x; the session key is
\* H(S); and for the B of an accessory that knows the PIN, S is the secret
\* (A * v^u)^b mod N that accessory computes.
C37_SharedSecret ==
  (sres.op = "request2" /\ ~sres.crash /\ sctx.M1 = "M") =>
     LET usr == sctx.user[1]
         B == bnum_bin2bn(sctx.pkB)
         k == H_nn_pad(NG_N, NG_g)
         u == H_nn_pad(usr.A, B)
         x == calculate_x(bnum_bin2bn(sctx.salt), USERNAME, sctx.pin)
         v == SrpVerifier(sctx.salt, sctx.pin)
     IN /\ usr.S \in 0..(NG_N - 1)
        /\ usr.S = ModExpNat((B - k * v) % NG_N, usr.a + u * x, NG_N)
        /\ usr.session_key = hash_num(usr.S)
        /\ usr.session_key_len = SHA512_DIGEST_LENGTH
        /\ \A b \in ServerExponents :
              B = ServerB(sctx.salt, sctx.pin, b) => usr.S = ServerS(usr.A, v, u, b)

\* C37 witness: the challenge of an accessory that knows the PIN was
\* accepted with B smaller than k*g^x, and the secret stored is the one the
\* accessory computes, neither 0 nor 1.
C37_Witness ==
  /\ sres.op = "request2" /\ ~sres.crash /\ sctx.M1 = "M"
  /\ \E b \in ServerExponents :
       /\ bnum_bin2bn(sctx.pkB) = ServerB(sctx.salt, sctx.pin, b)
       /\ sctx.user[1].S = ServerS(sctx.user[1].A, SrpVerifier(sctx.salt, sctx.pin),
                                   H_nn_pad(sctx.user[1].A, bnum_bin2bn(sctx.pkB)), b)
  /\ bnum_bin2bn(sctx.pkB) < H_nn_pad(NG_N, NG_g) * SrpVerifier(sctx.salt, sctx.pin)
  /\ sctx.user[1].S > 1
  /\ (sctx.user[1].a + H_nn_pad(sctx.user[1].A, bnum_bin2bn(sctx.pkB))
         * calculate_x(bnum_bin2bn(sctx.salt), USERNAME, sctx.pin)) % 2 = 1

====
